---- MODULE Spec2Model ----
(***************************************************************************)
(* Sliding-tile puzzle with line shifts (PuzzleModel) and the two-party    *)
(* session built on it (GameController, MultiplayerGameController,         *)
(* PeerService).                                                           *)
(*                                                                         *)
(* SpecEngine drives one PuzzleModel through its public operations.        *)
(* Spec drives two participants joined by an ordered reliable channel.     *)
(***************************************************************************)
EXTENDS Integers, Sequences, FiniteSets, TLC

(***************************************************************************)
(* Bounds of the exploration.                                              *)
(***************************************************************************)
\* largest dimension an engine is constructed with in SpecEngine
MaxDim == 3
\* number of engine operations explored on an engine larger than that
MaxLargeOps == 2
\* number of engine operations after which getAffectedTiles is still asked
MaxQueryOps == 2
\* number of engine operations explored after construction
MaxOps == 7
\* tile selections made in a session, both participants together
MaxClicks == 2
\* presses of the Shuffle control in a session, both participants together
MaxResets == 1
\* operations applied to the pair of engines of SpecTwin
MaxTwinOps == 3
\* iterations of the shuffle loop run when a controller shuffles in one
\* handler. The engine runs max(200, 10 * n * n) iterations; a walk of the
\* empty cell of that length can always be padded from a shorter walk of the
\* same parity by stepping back and forth, so with an even cap every board
\* drawn here is a board the full loop can produce.
MaxShuffleSteps == 2
\* messages not yet handled, both directions together, from which on no
\* further game request is sent
MaxPending == 2

\* presses of a back button in a session behaviour
MaxBacks == 1
\* single player games started in a session behaviour
MaxSolos == 1
\* tile selections in a behaviour of SpecLeave
MaxLeaveClicks == 1
\* discovery messages an instance has yet to handle
MaxChannel == 1
\* connections a PeerService creates or is handed
MaxConns == 3

(***************************************************************************)
(* Program constants.                                                      *)
(***************************************************************************)
\* Math.max(2, ...) in the constructor
MinDimension == 2
\* Math.min(8, ...) in the constructor
MaxDimension == 8
\* shuffle(moves = 200)
DefaultShuffleMoves == 200
\* this.dimension * this.dimension * 10
ShuffleScale == 10
\* the dimension used when no dimension select is registered (": 3")
DefaultDimension == 3

Max(a, b) == IF a > b THEN a ELSE b
Min(a, b) == IF a < b THEN a ELSE b
Abs(a) == IF a < 0 THEN 0 - a ELSE a

Pos(r, c) == [row |-> r, col |-> c]
Sign(x) == IF x > 0 THEN 1 ELSE IF x < 0 THEN -1 ELSE 0
\* the cells of an engine's board, as <<row, col>>
Cells(m) == (0..(m.dimension - 1)) \X (0..(m.dimension - 1))

\* a legal target in the sense of the data model: an in-range cell on the
\* empty cell's row or column that is not the empty cell
LegalTarget(m, row, col) ==
  /\ row \in 0..(m.dimension - 1)
  /\ col \in 0..(m.dimension - 1)
  /\ (row = m.emptyPosition.row \/ col = m.emptyPosition.col)
  /\ Pos(row, col) # m.emptyPosition

LineDistance(m, row, col) ==
  Abs(row - m.emptyPosition.row) + Abs(col - m.emptyPosition.col)

(***************************************************************************)
(* PuzzleModel: a record [dimension, board, emptyPosition]; the solution   *)
(* is readonly and a function of the dimension.                            *)
(***************************************************************************)
\* createSolvedBoard: the counter starts at 1 and goes up by one with every
\* cell pushed, row by row, so the cell (row, col) receives row * n + col + 1;
\* the last cell receives 0
createSolvedBoard(n) ==
  [row \in 0..(n - 1) |->
     [col \in 0..(n - 1) |->
        IF row = n - 1 /\ col = n - 1 THEN 0 ELSE row * n + col + 1]]

copyBoard(board) == [r \in DOMAIN board |-> [c \in DOMAIN board[r] |-> board[r][c]]]

NewPuzzleModel(dimension) ==
  LET n == Max(MinDimension, Min(MaxDimension, dimension))
  IN [dimension |-> n,
      board |-> copyBoard(createSolvedBoard(n)),
      emptyPosition |-> Pos(n - 1, n - 1)]

getBoard(m) == copyBoard(m.board)

\* isSolved() answering false whatever the board
isSolvedNever(m) == FALSE

isSolved(m) ==
  \A row \in 0..(m.dimension - 1) : \A col \in 0..(m.dimension - 1) :
    m.board[row][col] = createSolvedBoard(m.dimension)[row][col]

isValidPosition(m, row, col) ==
  row >= 0 /\ row < m.dimension /\ col >= 0 /\ col < m.dimension

canMoveTile(m, row, col) ==
  IF ~isValidPosition(m, row, col) THEN FALSE
  ELSE (row = m.emptyPosition.row \/ col = m.emptyPosition.col)

RECURSIVE shiftRowLoop(_, _, _, _, _)
\* for (col = emptyCol; col !== clickedCol; col += direction)
shiftRowLoop(board, row, col, clickedCol, direction) ==
  IF col = clickedCol THEN board
  ELSE shiftRowLoop([board EXCEPT ![row][col] = board[row][col + direction]],
                    row, col + direction, clickedCol, direction)

\* shiftRow without "this.board[row][clickedCol] = 0"
shiftRowNoBlank(m, row, clickedCol) ==
  LET emptyCol == m.emptyPosition.col
      direction == IF emptyCol < clickedCol THEN 1 ELSE -1
      shifted == shiftRowLoop(m.board, row, emptyCol, clickedCol, direction)
  IN [m EXCEPT !.board = shifted,
               !.emptyPosition = Pos(row, clickedCol)]

shiftRow(m, row, clickedCol) ==
  LET emptyCol == m.emptyPosition.col
      direction == IF emptyCol < clickedCol THEN 1 ELSE -1
      shifted == shiftRowLoop(m.board, row, emptyCol, clickedCol, direction)
  IN [m EXCEPT !.board = [shifted EXCEPT ![row][clickedCol] = 0],
               !.emptyPosition = Pos(row, clickedCol)]

RECURSIVE shiftColumnLoopShort(_, _, _, _, _)
\* the loop of shiftColumn stopping one cell early (row + direction !== clickedRow)
shiftColumnLoopShort(board, col, row, clickedRow, direction) ==
  IF row + direction = clickedRow THEN board
  ELSE shiftColumnLoopShort([board EXCEPT ![row][col] = board[row + direction][col]],
                            col, row + direction, clickedRow, direction)

RECURSIVE shiftColumnLoop(_, _, _, _, _)
\* for (row = emptyRow; row !== clickedRow; row += direction)
shiftColumnLoop(board, col, row, clickedRow, direction) ==
  IF row = clickedRow THEN board
  ELSE shiftColumnLoop([board EXCEPT ![row][col] = board[row + direction][col]],
                       col, row + direction, clickedRow, direction)

\* shiftColumn without the update of emptyPosition
shiftColumnStaleEmpty(m, col, clickedRow) ==
  LET emptyRow == m.emptyPosition.row
      direction == IF emptyRow < clickedRow THEN 1 ELSE -1
      shifted == shiftColumnLoop(m.board, col, emptyRow, clickedRow, direction)
  IN [m EXCEPT !.board = [shifted EXCEPT ![clickedRow][col] = 0]]

shiftColumn(m, col, clickedRow) ==
  LET emptyRow == m.emptyPosition.row
      direction == IF emptyRow < clickedRow THEN 1 ELSE -1
      shifted == shiftColumnLoop(m.board, col, emptyRow, clickedRow, direction)
  IN [m EXCEPT !.board = [shifted EXCEPT ![clickedRow][col] = 0],
               !.emptyPosition = Pos(clickedRow, col)]

\* moveTile returns the engine after the call and the boolean it returns
moveTile(m, row, col) ==
  IF ~canMoveTile(m, row, col) THEN [model |-> m, ret |-> FALSE]
  ELSE IF row = m.emptyPosition.row THEN [model |-> shiftRow(m, row, col), ret |-> TRUE]
  ELSE IF col = m.emptyPosition.col THEN [model |-> shiftColumn(m, col, row), ret |-> TRUE]
  ELSE [model |-> m, ret |-> FALSE]

\* reset() restoring the board and leaving emptyPosition where it was
resetKeepEmpty(m) ==
  [m EXCEPT !.board = copyBoard(createSolvedBoard(m.dimension))]

reset(m) ==
  [m EXCEPT !.board = copyBoard(createSolvedBoard(m.dimension)),
            !.emptyPosition = Pos(m.dimension - 1, m.dimension - 1)]

\* moveAdjacentTile without the copy of the tile into the empty cell
moveAdjacentTileNoCopy(m, row, col) ==
  IF ~isValidPosition(m, row, col) THEN [model |-> m, ret |-> FALSE]
  ELSE LET emptyRow == m.emptyPosition.row
           emptyCol == m.emptyPosition.col
       IN IF (Abs(row - emptyRow) = 1 /\ col = emptyCol)
             \/ (Abs(col - emptyCol) = 1 /\ row = emptyRow)
          THEN [model |-> [m EXCEPT !.board = [m.board EXCEPT ![row][col] = 0],
                                    !.emptyPosition = Pos(row, col)],
                ret |-> TRUE]
          ELSE [model |-> m, ret |-> FALSE]

moveAdjacentTile(m, row, col) ==
  IF ~isValidPosition(m, row, col) THEN [model |-> m, ret |-> FALSE]
  ELSE LET emptyRow == m.emptyPosition.row
           emptyCol == m.emptyPosition.col
       IN IF (Abs(row - emptyRow) = 1 /\ col = emptyCol)
             \/ (Abs(col - emptyCol) = 1 /\ row = emptyRow)
          THEN [model |-> [m EXCEPT !.board = [[m.board EXCEPT ![emptyRow][emptyCol] = m.board[row][col]]
                                                 EXCEPT ![row][col] = 0],
                                    !.emptyPosition = Pos(row, col)],
                ret |-> TRUE]
          ELSE [model |-> m, ret |-> FALSE]

\* up, down, left, right
\* getAffectedTiles with "c <= end": the target cell is listed too
getAffectedTilesInclusive(m, row, col) ==
  IF ~canMoveTile(m, row, col) THEN << >>
  ELSE LET emptyRow == m.emptyPosition.row
           emptyCol == m.emptyPosition.col
       IN IF row = emptyRow
          THEN LET start == Min(col, emptyCol) + 1
                   end == Max(col, emptyCol)
               IN [i \in 1..(end - start + 1) |-> Pos(row, start + i - 1)]
          ELSE IF col = emptyCol
          THEN LET start == Min(row, emptyRow) + 1
                   end == Max(row, emptyRow)
               IN [i \in 1..(end - start + 1) |-> Pos(start + i - 1, col)]
          ELSE << >>

\* PuzzleModel.getAffectedTiles: the loops run c (or r) from start up to
\* end - 1 and push in that order
getAffectedTiles(m, row, col) ==
  IF ~canMoveTile(m, row, col) THEN << >>
  ELSE LET emptyRow == m.emptyPosition.row
           emptyCol == m.emptyPosition.col
       IN IF row = emptyRow
          THEN LET start == Min(col, emptyCol) + 1
                   end == Max(col, emptyCol)
               IN [i \in 1..(end - start) |-> Pos(row, start + i - 1)]
          ELSE IF col = emptyCol
          THEN LET start == Min(row, emptyRow) + 1
                   end == Max(row, emptyRow)
               IN [i \in 1..(end - start) |-> Pos(start + i - 1, col)]
          ELSE << >>

directions == << <<-1, 0>>, <<1, 0>>, <<0, -1>>, <<0, 1>> >>

RECURSIVE possibleMovesFrom(_, _, _)
possibleMovesFrom(m, i, acc) ==
  IF i > Len(directions) THEN acc
  ELSE LET newRow == m.emptyPosition.row + directions[i][1]
           newCol == m.emptyPosition.col + directions[i][2]
       IN IF isValidPosition(m, newRow, newCol)
          THEN possibleMovesFrom(m, i + 1, Append(acc, <<newRow, newCol>>))
          ELSE possibleMovesFrom(m, i + 1, acc)

\* getPossibleMoves without the isValidPosition test
getPossibleMovesUnchecked(m) ==
  [i \in 1..Len(directions) |->
     <<m.emptyPosition.row + directions[i][1], m.emptyPosition.col + directions[i][2]>>]

getPossibleMoves(m) == possibleMovesFrom(m, 1, << >>)

\* the count of a round without the scaling by the size of the board
shuffleMovesUnscaled(m, moves) == moves

\* Math.max(moves, this.dimension * this.dimension * 10)
shuffleMoves(m, moves) == Max(moves, m.dimension * m.dimension * ShuffleScale)

RECURSIVE shuffleLoop(_, _)
\* the boards the loop of shuffle() can hold after i more iterations, each
\* iteration moving the empty cell to one of getPossibleMoves()
shuffleLoop(S, i) ==
  IF i = 0 THEN S
  ELSE shuffleLoop(
         UNION {{moveAdjacentTile(m, getPossibleMoves(m)[j][1], getPossibleMoves(m)[j][2]).model :
                   j \in 1..Len(getPossibleMoves(m))} : m \in S},
         i - 1)

\* the engines shuffle(moves) can return: a round ending solved is shuffled
\* again with the same count, so the result is any unsolved end of a round
shuffle(m, moves) ==
  LET total == Min(shuffleMoves(m, moves), MaxShuffleSteps)
  IN {x \in shuffleLoop({reset(m)}, total) : ~isSolved(x)}

(***************************************************************************)
(* The classic engine, class Puzzle. A row is a JavaScript array: reading  *)
(* an index it does not have yields undefined, and writing one adds it.    *)
(***************************************************************************)
\* what reading a missing array element yields
Undefined == -1

NewPuzzle(dimension) ==
  LET n == Max(MinDimension, Min(MaxDimension, dimension))
  IN [dimension |-> n,
      board |-> copyBoard(createSolvedBoard(n)),
      emptyRow |-> n - 1,
      emptyCol |-> n - 1]

\* Puzzle.canMove
canMove(p, row, col) ==
  \/ (Abs(row - p.emptyRow) = 1 /\ col = p.emptyCol)
  \/ (Abs(col - p.emptyCol) = 1 /\ row = p.emptyRow)

\* board[row][col] = value
arrayWrite(board, row, col, value) ==
  [board EXCEPT ![row] = [k \in (DOMAIN board[row]) \cup {col} |->
                            IF k = col THEN value ELSE board[row][k]]]

\* Puzzle.move: the puzzle after the call, the value returned, and whether
\* the call threw instead of returning; this.board[row] is undefined for a
\* row the board does not have, and reading [col] of it throws a TypeError
\* before anything is written
move(p, row, col) ==
  IF ~canMove(p, row, col) THEN [puzzle |-> p, ret |-> FALSE, threw |-> FALSE]
  ELSE IF row \notin DOMAIN p.board THEN [puzzle |-> p, ret |-> FALSE, threw |-> TRUE]
  ELSE LET value == IF col \in DOMAIN p.board[row] THEN p.board[row][col] ELSE Undefined
           board1 == arrayWrite(p.board, p.emptyRow, p.emptyCol, value)
           board2 == arrayWrite(board1, row, col, 0)
       IN [puzzle |-> [p EXCEPT !.board = board2, !.emptyRow = row, !.emptyCol = col],
           ret |-> TRUE, threw |-> FALSE]

(***************************************************************************)
(* Messages of PeerService.                                                *)
(***************************************************************************)
NoBoard == [r \in {} |-> 0]

Msg(type, row, col, dimension, board) ==
  [type |-> type, row |-> row, col |-> col, dimension |-> dimension, board |-> board]

GameRequest == Msg("game-request", 0, 0, 0, NoBoard)
GameAccept == Msg("game-accept", 0, 0, 0, NoBoard)
GameDecline == Msg("game-decline", 0, 0, 0, NoBoard)
GameStart(dimension, board) == Msg("game-start", 0, 0, dimension, board)
MoveMade(row, col) == Msg("move-made", row, col, 0, NoBoard)
GameWon == Msg("game-won", 0, 0, 0, NoBoard)
ResetGame == Msg("reset-game", 0, 0, 0, NoBoard)
\* not a PeerMessage: the 'close' event the peer's end of the connection
\* raises once this end is gone
ConnClosed == Msg("close", 0, 0, 0, NoBoard)

(***************************************************************************)
(* GameController / MultiplayerGameController / PuzzleView, one record per *)
(* participant. A handler is an operator from the record (and the          *)
(* handler's arguments) to the record after it and the messages it hands   *)
(* to PeerService, in order.                                               *)
(***************************************************************************)
NullModel == [dimension |-> 0, board |-> NoBoard, emptyPosition |-> Pos(0, 0)]

NewController ==
  [model |-> NullModel,            \* GameController.model
   hasModel |-> FALSE,             \* model !== null
   moveCount |-> 0,
   gameStarted |-> FALSE,
   isMoving |-> FALSE,
   isMultiplayerActive |-> FALSE,
   receivedMove |-> FALSE,
   opponentSolved |-> FALSE,
   waitingForPeerId |-> "",        \* "" is null
   isHost |-> FALSE,
   isAnimating |-> FALSE,          \* PuzzleView.isAnimating
   screen |-> "welcome",           \* what the view last rendered
   requestFrom |-> "",             \* sender of the game request dialog on display
   hasDimensionSelect |-> FALSE,   \* GameController.dimensionSelect !== null
   selectValue |-> DefaultDimension, \* value of the size select of the welcome screen
   errorShown |-> FALSE,           \* PuzzleView.showError has put up its dialog
   waitTimer |-> FALSE,            \* the 1000 ms timeout of connectToPeer is pending
   waitingShown |-> FALSE]         \* the waiting-for-accept dialog is on display

Result(c, out) == [c |-> c, out |-> out]

\* MultiplayerView.closeModal: every modal overlay and error modal is removed
closeModal(c) ==
  [c EXCEPT !.requestFrom = "", !.waitingShown = FALSE, !.errorShown = FALSE]

\* MultiplayerGameController.start: the multiplayer state is reset and the
\* welcome screen rendered; the engine and the select registration are kept
start(c) ==
  [c EXCEPT !.isMultiplayerActive = FALSE,
            !.receivedMove = FALSE,
            !.opponentSolved = FALSE,
            !.waitingForPeerId = "",
            !.screen = "welcome"]

\* GameController.backToWelcome; this.start is the override above
superBackToWelcome(c) == start([c EXCEPT !.gameStarted = FALSE])

\* MultiplayerGameController.backToWelcome as handleConnectionStatus calls
\* it: isMultiplayerActive is false by then, so peerService.close() is skipped
backToWelcome(c) ==
  superBackToWelcome([c EXCEPT !.isMultiplayerActive = FALSE])

\* MultiplayerGameController.showConnectionScreen
showConnectionScreen(c) == [c EXCEPT !.screen = "connect"]

\* PuzzleView.updateBoard on existing tiles: a tile whose position changed
\* is animated, and animateTileMove sets isAnimating
updateBoard(c, shownBoard) ==
  IF c.hasModel /\ c.model.board # shownBoard
  THEN [c EXCEPT !.isAnimating = TRUE]
  ELSE c

\* GameController.handleTileClick
superHandleTileClick(c, row, col) ==
  IF ~c.hasModel \/ c.isMoving THEN c
  ELSE IF canMoveTile(c.model, row, col)
       THEN updateBoard([c EXCEPT !.isMoving = TRUE,
                                  !.model = moveTile(c.model, row, col).model,
                                  !.moveCount = c.moveCount + 1],
                        c.model.board)
       ELSE c

\* handleTileClick sending the move without the test on isMultiplayerActive
handleTileClickAlwaysSend(c, row, col) ==
  IF c.isMultiplayerActive /\ c.receivedMove
  THEN Result([c EXCEPT !.receivedMove = FALSE], << >>)
  ELSE LET c2 == superHandleTileClick(c, row, col)
       IN IF c2.hasModel /\ canMoveTile(c2.model, row, col)
          THEN Result(c2, <<MoveMade(row, col)>>
                          \o (IF isSolved(c2.model) THEN <<GameWon>> ELSE << >>))
          ELSE Result(c2, << >>)

\* handleTileClick returning on the flag without "this.receivedMove = false"
handleTileClickKeepFlag(c, row, col) ==
  IF c.isMultiplayerActive /\ c.receivedMove
  THEN Result(c, << >>)
  ELSE LET c2 == superHandleTileClick(c, row, col)
       IN IF c2.isMultiplayerActive /\ c2.hasModel /\ canMoveTile(c2.model, row, col)
          THEN Result(c2, <<MoveMade(row, col)>>
                          \o (IF isSolved(c2.model) THEN <<GameWon>> ELSE << >>))
          ELSE Result(c2, << >>)

\* MultiplayerGameController.handleTileClick
handleTileClick(c, row, col) ==
  IF c.isMultiplayerActive /\ c.receivedMove
  THEN Result([c EXCEPT !.receivedMove = FALSE], << >>)
  ELSE LET c2 == superHandleTileClick(c, row, col)
       IN IF c2.isMultiplayerActive /\ c2.hasModel /\ canMoveTile(c2.model, row, col)
          THEN Result(c2, <<MoveMade(row, col)>>
                          \o (IF isSolved(c2.model) THEN <<GameWon>> ELSE << >>))
          ELSE Result(c2, << >>)

\* handleReceivedMove without "this.receivedMove = true"
handleReceivedMoveNoFlag(c, row, col) ==
  IF ~c.isMultiplayerActive \/ ~c.hasModel THEN Result(c, << >>)
  ELSE handleTileClick(c, row, col)

\* MultiplayerGameController.handleReceivedMove: this.handleTileClick is the
\* override above
handleReceivedMove(c, row, col) ==
  IF ~c.isMultiplayerActive \/ ~c.hasModel THEN Result(c, << >>)
  ELSE handleTileClick([c EXCEPT !.receivedMove = TRUE], row, col)

\* GameController.resetGame; shuffled is the engine model.shuffle() leaves
superResetGame(c, shuffled) ==
  IF ~c.hasModel THEN c
  ELSE updateBoard([c EXCEPT !.model = shuffled, !.moveCount = 0], c.model.board)

\* resetGame sending the board it held before the shuffle
resetGameStaleBoard(c, shuffled) ==
  LET c2 == superResetGame(c, shuffled)
      out == IF c2.isMultiplayerActive /\ c2.isHost
             THEN <<ResetGame, GameStart(c.model.dimension, getBoard(c.model))>>
             ELSE << >>
  IN Result([c2 EXCEPT !.opponentSolved = FALSE], out)

\* MultiplayerGameController.resetGame
resetGame(c, shuffled) ==
  LET c2 == superResetGame(c, shuffled)
      out == IF c2.isMultiplayerActive /\ c2.isHost
             THEN <<ResetGame, GameStart(c2.model.dimension, getBoard(c2.model))>>
             ELSE << >>
  IN Result([c2 EXCEPT !.opponentSolved = FALSE], out)

\* the engines model.shuffle() can leave in resetGame
ShuffleChoices(c) ==
  IF c.hasModel THEN shuffle(c.model, DefaultShuffleMoves) ELSE {NullModel}

\* MultiplayerGameController.startMultiplayerGameAsHost. The select is
\* registered by GameController.start() alone, which this controller
\* overrides without calling it, so getDimensionSelect() stays null
startMultiplayerGameAsHost(c, shuffled) ==
  LET dimension == IF c.hasDimensionSelect THEN c.selectValue ELSE DefaultDimension
      c1 == [c EXCEPT !.model = NewPuzzleModel(dimension),
                      !.hasModel = TRUE,
                      !.moveCount = 0,
                      !.screen = "game"]
      r == resetGame(c1, shuffled)
  IN Result(r.c, r.out \o <<GameStart(dimension, getBoard(r.c.model))>>)

\* the engines the shuffle inside startMultiplayerGameAsHost can leave
HostShuffleChoices == shuffle(NewPuzzleModel(DefaultDimension), DefaultShuffleMoves)

\* handleConnectionStatus without "this.isHost = isHost"
handleConnectionStatusNoRole(c, isConnected, isHost, shuffled) ==
  IF isConnected
  THEN LET c1 == closeModal([c EXCEPT !.isMultiplayerActive = TRUE,
                                      !.waitingForPeerId = ""])
       IN IF isHost THEN startMultiplayerGameAsHost(c1, shuffled)
          ELSE Result(c1, << >>)
  ELSE LET c1 == [c EXCEPT !.isMultiplayerActive = FALSE]
       IN Result(IF c1.gameStarted THEN backToWelcome(c1) ELSE c1, << >>)

\* MultiplayerGameController.handleConnectionStatus; prepareGameUI closes
\* the modal on display
handleConnectionStatus(c, isConnected, isHost, shuffled) ==
  IF isConnected
  THEN LET c1 == closeModal([c EXCEPT !.isMultiplayerActive = TRUE,
                                      !.isHost = isHost,
                                      !.waitingForPeerId = ""])
       IN IF isHost THEN startMultiplayerGameAsHost(c1, shuffled)
          ELSE Result(c1, << >>)
  ELSE LET c1 == [c EXCEPT !.isMultiplayerActive = FALSE]
       IN Result(IF c1.gameStarted THEN backToWelcome(c1) ELSE c1, << >>)

\* MultiplayerGameController.handleGameAccepted
handleGameAccepted(c, peerId) == closeModal([c EXCEPT !.waitingForPeerId = ""])

\* the onGameDeclined callback without the test on the sender
handleGameDeclinedAnyPeer(c, peerId) == closeModal([c EXCEPT !.waitingForPeerId = ""])

\* the onGameDeclined callback
handleGameDeclined(c, peerId) ==
  IF c.waitingForPeerId = peerId
  THEN closeModal([c EXCEPT !.waitingForPeerId = ""])
  ELSE c

\* MultiplayerGameController.handleGameRequest: the dialog replaces whatever
\* modal was on display
handleGameRequest(c, from) == [closeModal(c) EXCEPT !.requestFrom = from]

\* PeerService.acceptGameRequest followed by this.isHost = false
\* (handleGameRequestResponse) or PeerService.declineGameRequest
handleGameRequestResponse(c, accepted, playerId) ==
  LET c0 == closeModal(c)
  IN IF accepted
     THEN LET r == handleConnectionStatus(c0, TRUE, FALSE, NullModel)
          IN Result([r.c EXCEPT !.isHost = FALSE], r.out \o <<GameAccept>>)
     ELSE Result(c0, <<GameDecline>>)

RECURSIVE findEmptyFrom(_, _, _, _)
\* the scan of findEmptyPosition, cell k = row * cols + col
findEmptyFrom(board, rows, cols, k) ==
  IF k = rows * cols THEN Pos(rows - 1, cols - 1)
  ELSE IF board[k \div cols][k % cols] = 0 THEN Pos(k \div cols, k % cols)
  ELSE findEmptyFrom(board, rows, cols, k + 1)

\* the scan of findEmptyPosition dropped: always the bottom-right default
findEmptyPositionDefault(board) ==
  Pos(Cardinality(DOMAIN board) - 1, Cardinality(DOMAIN board[0]) - 1)

findEmptyPosition(board) ==
  findEmptyFrom(board, Cardinality(DOMAIN board), Cardinality(DOMAIN board[0]), 0)

\* installBoard without "modelAny.emptyPosition = this.findEmptyPosition(board)"
installBoardKeepEmpty(dimension, board) ==
  [NewPuzzleModel(dimension) EXCEPT !.board = board]

\* the engine handleReceivedGameStart builds: new PuzzleModel(dimension) with
\* its board and emptyPosition overwritten
installBoard(dimension, board) ==
  [NewPuzzleModel(dimension) EXCEPT !.board = board,
                                    !.emptyPosition = findEmptyPosition(board)]

\* MultiplayerGameController.handleReceivedGameStart: a fresh view, so the
\* tiles are created in place and nothing is animated
handleReceivedGameStart(c, dimension, board) ==
  [c EXCEPT !.model = installBoard(dimension, board),
            !.hasModel = TRUE,
            !.moveCount = 0,
            !.screen = "game"]

\* MultiplayerGameController.handleReceivedReset
handleReceivedReset(c) == [c EXCEPT !.opponentSolved = FALSE]

\* handleOpponentWon also clearing the move counter
handleOpponentWonResetCount(c) == [c EXCEPT !.opponentSolved = TRUE, !.moveCount = 0]

\* MultiplayerGameController.handleOpponentWon
handleOpponentWon(c) == [c EXCEPT !.opponentSolved = TRUE]

\* PeerService.handleData: the callback each message type is routed to
handleData(c, data, peerId, shuffled) ==
  CASE data.type = "game-request" -> Result(handleGameRequest(c, peerId), << >>)
    [] data.type = "game-accept" ->
         LET r == handleConnectionStatus(c, TRUE, TRUE, shuffled)
         IN Result(handleGameAccepted(r.c, peerId), r.out)
    [] data.type = "game-decline" -> Result(handleGameDeclined(c, peerId), << >>)
    [] data.type = "game-start" ->
         Result(handleReceivedGameStart(c, data.dimension, data.board), << >>)
    [] data.type = "move-made" -> handleReceivedMove(c, data.row, data.col)
    [] data.type = "game-won" -> Result(handleOpponentWon(c), << >>)
    [] data.type = "reset-game" -> Result(handleReceivedReset(c), << >>)
    [] OTHER -> Result(c, << >>)

\* MultiplayerGameController.connectToPeer on a peer id other than one's own
connectToPeer(c, peerId) ==
  Result([c EXCEPT !.waitingForPeerId = peerId, !.waitTimer = TRUE], <<GameRequest>>)

\* the timeout connectToPeer sets: showWaitingForAcceptScreen replaces
\* whatever modal was on display
showWaitingForAcceptScreen(c) ==
  [closeModal(c) EXCEPT !.waitTimer = FALSE, !.waitingShown = TRUE]

\* cancelWaitingForAccept keeping the pending peer
cancelWaitingForAcceptKeepPeer(c) ==
  IF c.waitingForPeerId # ""
  THEN showConnectionScreen(c)
  ELSE c

\* MultiplayerGameController.cancelWaitingForAccept
cancelWaitingForAccept(c) ==
  IF c.waitingForPeerId # ""
  THEN showConnectionScreen([c EXCEPT !.waitingForPeerId = ""])
  ELSE c

\* GameController.startGame: this.resetGame is the override, and shuffled is
\* the engine model.shuffle() leaves
startGame(c, shuffled) ==
  LET dimension == IF c.hasDimensionSelect THEN c.selectValue ELSE DefaultDimension
      c1 == [c EXCEPT !.gameStarted = TRUE,
                      !.model = NewPuzzleModel(dimension),
                      !.hasModel = TRUE,
                      !.moveCount = 0,
                      !.screen = "game"]
  IN resetGame(c1, shuffled)

\* MultiplayerGameController.startSinglePlayerGame
startSinglePlayerGame(c, shuffled) ==
  startGame([c EXCEPT !.isMultiplayerActive = FALSE], shuffled)

\* MultiplayerGameController.backToWelcome as the back buttons call it: when
\* the session is active PeerService.close() runs first, and its
\* onConnectionStatusCallback(false, false) is handleConnectionStatus
backToWelcomePressed(c) ==
  LET c1 == IF c.isMultiplayerActive
            THEN handleConnectionStatus(c, FALSE, FALSE, NullModel).c
            ELSE c
  IN backToWelcome(c1)

\* PeerService.connectToPeer returning a connection without the test on selfId
PeerService_connectToPeerAnyId(selfId, peerId) == TRUE

\* PeerService.connectToPeer: whether a connection is returned, null being
\* the answer for one's own id
PeerService_connectToPeer(selfId, peerId) == peerId # selfId

\* MultiplayerGameController.connectToPeer for the id the user entered: with
\* no connection, showError puts up its dialog
connectToPeerId(c, selfId, peerId) ==
  IF PeerService_connectToPeer(selfId, peerId)
  THEN connectToPeer(c, peerId)
  ELSE Result([closeModal(c) EXCEPT !.errorShown = TRUE], << >>)

(***************************************************************************)
(* State.                                                                  *)
(***************************************************************************)
VARIABLES
  model,    \* the PuzzleModel under test in SpecEngine, the Puzzle in SpecClassic
  op,       \* the last operation applied to it, its arguments and return value
  prev,     \* the engine as it was before that operation
  shuf,     \* progress of a running shuffle(): [active, i, total]
  nops,     \* operations applied so far
  ctl,      \* per participant: controller, view and engine fields
  conn,     \* per participant: its PeerService holds an open connection to the peer
  net,      \* per participant: messages it sent that the peer has not yet handled
  ev,       \* the last handler that ran: who, what, the state before, what it sent
  budget,   \* user actions taken so far: tile selections, Shuffle presses of each, backs
  heap,     \* SpecTwin: the row arrays allocated so far, by reference
  origin,   \* SpecTwin: an engine, its board held as references to row arrays
  replica,  \* SpecTwin: the engine that received origin's getBoard() snapshot
  tw,       \* SpecTwin: the last operation, its return values, both engines before it
  paired,   \* SpecTwin: both engines got the same operations since the snapshot
  disc,     \* SpecDiscovery: per instance, the PeerDiscoveryService fields
  chan,     \* SpecDiscovery: per instance, channel messages it has not yet handled
  called,   \* SpecDiscovery: the last handleMessage: where, on what, the callback invoked
  svc,      \* SpecRegistry: the connections of one PeerService and its registry
  sev       \* SpecRegistry: the last call or connection event, and the service before it

evars == <<model, op, prev, shuf, nops>>
svars == <<ctl, conn, net, ev, budget>>
tvars == <<heap, origin, replica, tw, paired>>
pvars == <<disc, chan, called, svc, sev>>
vars == <<model, op, prev, shuf, nops, ctl, conn, net, ev, budget,
          heap, origin, replica, tw, paired, disc, chan, called, svc, sev>>

\* op of an engine fresh from new PuzzleModel(dimension): row keeps the
\* dimension asked for
Constructed(dimension) ==
  [name |-> "constructor", row |-> dimension, col |-> 0, ret |-> TRUE, tiles |-> << >>]
NoOp == Constructed(0)
Idle == [active |-> FALSE, i |-> 0, total |-> 0]

\* requested dimensions, one below the clamp included
ReqDims == 1..MaxDim
\* dimensions an engine is constructed with in SpecEngine: from one below the
\* clamp to one above it
ConstructDims == (MinDimension - 1)..(MaxDimension + 1)
\* targets handed to moveTile: every cell and a ring of out-of-range positions
Coords(m) == -1..m.dimension
\* values of the moves argument of shuffle(): below and above 10 * n * n
ShuffleArgs == {0, MinDimension * MinDimension * ShuffleScale + 1}

\* dimensions whose shuffle loop is run iteration by iteration: the loop has
\* 10 * n * n iterations at least, and only the smallest board keeps the
\* product of iterations and boards explorable
ShuffleDims == {MinDimension}

Requester == "a"
Acceptor == "b"
Stranger == "c"
Participants == {Requester, Acceptor}
Peer(p) == IF p = Requester THEN Acceptor ELSE Requester

\* what ev keeps of the controller as it was before the handler ran
Snapshot(c) ==
  [model |-> c.model, hasModel |-> c.hasModel,
   isMultiplayerActive |-> c.isMultiplayerActive]

NoEvent ==
  [p |-> Requester, kind |-> "start", msg |-> GameRequest, row |-> 0, col |-> 0,
   before |-> Snapshot(NewController), out |-> << >>]

(***************************************************************************)
(* PeerDiscoveryService. The names and the lastSeen times of the peers map *)
(* are left out: what is kept is which ids it holds.                       *)
(***************************************************************************)
DiscoveryIds == {Requester, Acceptor, Stranger}
DiscoveryTypes ==
  {"announce", "leave", "requestGame", "acceptGame", "declineGame", "offer", "answer"}

\* a DiscoveryMessage; to is "" where the message has no addressee
DiscoveryMessage(type, from, to) == [type |-> type, from |-> from, to |-> to]

NewDiscovery == [peers |-> {}, closed |-> FALSE]

\* the service after a message and the callback handleMessage invoked
Reaction(d, callback) == [d |-> d, callback |-> callback]

handleAnnounce(d, message) ==
  Reaction([d EXCEPT !.peers = d.peers \cup {message.from}], "onPeersChanged")

handleLeave(d, message) ==
  IF message.from \in d.peers
  THEN Reaction([d EXCEPT !.peers = d.peers \ {message.from}], "onPeersChanged")
  ELSE Reaction(d, "none")

\* PeerDiscoveryService.handleGameRequest
Discovery_handleGameRequest(d, selfId, message) ==
  IF message.to = selfId /\ message.from \in d.peers
  THEN Reaction(d, "onGameRequest")
  ELSE Reaction(d, "none")

\* handleGameAccepted, handleGameDeclined, handleOffer, handleAnswer
Discovery_handleAddressed(d, selfId, message, callback) ==
  IF message.to = selfId THEN Reaction(d, callback) ELSE Reaction(d, "none")

\* the switch of handleMessage
Discovery_dispatch(d, selfId, message) ==
  CASE message.type = "announce" -> handleAnnounce(d, message)
    [] message.type = "leave" -> handleLeave(d, message)
    [] message.type = "requestGame" -> Discovery_handleGameRequest(d, selfId, message)
    [] message.type = "acceptGame" ->
         Discovery_handleAddressed(d, selfId, message, "onGameAccepted")
    [] message.type = "declineGame" ->
         Discovery_handleAddressed(d, selfId, message, "onGameDeclined")
    [] message.type = "offer" -> Discovery_handleAddressed(d, selfId, message, "onOffer")
    [] message.type = "answer" -> Discovery_handleAddressed(d, selfId, message, "onAnswer")
    [] OTHER -> Reaction(d, "none")

\* handleMessage without the test on message.from
handleMessageFromAnyone(d, selfId, message) == Discovery_dispatch(d, selfId, message)

\* PeerDiscoveryService.handleMessage
handleMessage(d, selfId, message) ==
  IF message.from = selfId THEN Reaction(d, "none")
  ELSE Discovery_dispatch(d, selfId, message)

NoCall ==
  [at |-> Requester, message |-> DiscoveryMessage("announce", Requester, ""),
   callback |-> "none"]

(***************************************************************************)
(* The connection registry of one PeerService. conns lists the DataConnec- *)
(* tion objects created so far, each with the events of                    *)
(* setupConnectionEvents attached; connections maps a peer id to the index *)
(* of the connection registered under it, 0 for none.                      *)
(***************************************************************************)
RemoteIds == {Acceptor, Stranger}

NewPeerService ==
  [connections |-> [q \in RemoteIds |-> 0],
   conns |-> << >>,
   isConnectedToPeer |-> FALSE]

NewConnection(peerId) == [peer |-> peerId, open |-> FALSE, closed |-> FALSE]

\* this.connections.size
registrySize(s) == Cardinality({q \in RemoteIds : s.connections[q] # 0})

\* PeerService.connectToPeer on the registry: the service after the call and
\* the connection returned, 0 for null
registryConnectToPeer(s, selfId, peerId) ==
  IF peerId = selfId THEN [s |-> s, conn |-> 0]
  ELSE IF s.connections[peerId] # 0 /\ s.conns[s.connections[peerId]].open
       THEN [s |-> s, conn |-> s.connections[peerId]]
       ELSE LET k == Len(s.conns) + 1
            IN [s |-> [s EXCEPT !.conns = Append(s.conns, NewConnection(peerId)),
                                !.connections[peerId] = k],
                conn |-> k]

\* PeerService.sendToPeer: a connection that is missing or not open is
\* replaced through connectToPeer, and the data waits for 'open'
sendToPeer(s, selfId, peerId) ==
  IF s.connections[peerId] = 0 \/ ~s.conns[s.connections[peerId]].open
  THEN registryConnectToPeer(s, selfId, peerId).s
  ELSE s

\* MultiplayerGameController.connectToPeer as the registry sees it:
\* PeerService.connectToPeer, then requestGame unless null came back
registryRequestGame(s, selfId, peerId) ==
  LET r == registryConnectToPeer(s, selfId, peerId)
  IN IF r.conn # 0 THEN sendToPeer(r.s, selfId, peerId) ELSE r.s

\* PeerService.handleIncomingConnection
handleIncomingConnection(s, peerId) ==
  LET k == Len(s.conns) + 1
  IN [s EXCEPT !.conns = Append(s.conns, NewConnection(peerId)),
               !.connections[peerId] = k]

\* the 'open' handler of setupConnectionEvents
connectionOpened(s, k) ==
  [s EXCEPT !.conns[k].open = TRUE, !.isConnectedToPeer = TRUE]

\* the 'close' and 'error' handlers of setupConnectionEvents on connection
\* k: this.connections.delete(conn.peer), then the test on the size. The
\* result is the service and whether onConnectionStatusCallback(false,
\* false) ran
connectionClosed(s, k) ==
  LET s1 == [s EXCEPT !.conns[k].open = FALSE, !.conns[k].closed = TRUE,
                      !.connections[s.conns[k].peer] = 0]
  IN IF registrySize(s1) = 0
     THEN [s |-> [s1 EXCEPT !.isConnectedToPeer = FALSE], notified |-> TRUE]
     ELSE [s |-> s1, notified |-> FALSE]

NoServiceEvent ==
  [kind |-> "constructor", conn |-> 0, before |-> NewPeerService, notified |-> FALSE]

\* the discovery services and the PeerService registry as constructed
PeerStart ==
  /\ disc = [i \in Participants |-> NewDiscovery]
  /\ chan = [i \in Participants |-> << >>]
  /\ called = NoCall
  /\ svc = NewPeerService
  /\ sev = NoServiceEvent

\* both pages loaded, PeerJS initialised, welcome screen on display
SessionStart ==
  /\ ctl = [p \in Participants |-> NewController]
  /\ conn = [p \in Participants |-> FALSE]
  /\ net = [p \in Participants |-> << >>]
  /\ ev = NoEvent
  /\ budget = [clicks |-> 0, resets |-> [p \in Participants |-> 0], backs |-> 0,
               solos |-> 0]
  /\ PeerStart

(***************************************************************************)
(* Two engines side by side. Arrays are objects: an engine holds its board *)
(* as references to row arrays kept in a heap, so that a snapshot which    *)
(* shares rows with its source is told apart from one which copies them.   *)
(* The outer array of a board is never written in place, so sharing it is  *)
(* the same as sharing every row.                                          *)
(***************************************************************************)
\* the PuzzleModel an engine with referenced rows amounts to
engineAt(h, e) ==
  [dimension |-> e.dimension,
   board |-> [r \in DOMAIN e.rows |-> h[e.rows[r]]],
   emptyPosition |-> e.emptyPosition]

\* the heap after engine e assigned the cells of m through its row references
\* (this.board[row][col] = ... in shiftRow and shiftColumn)
written(h, e, m) ==
  [i \in DOMAIN h |->
     IF \E r \in DOMAIN e.rows : e.rows[r] = i
     THEN m.board[CHOOSE r \in DOMAIN e.rows : e.rows[r] = i]
     ELSE h[i]]

\* moveTile on an engine with referenced rows
moveTileAt(h, e, row, col) ==
  LET r == moveTile(engineAt(h, e), row, col)
  IN [heap |-> written(h, e, r.model),
      engine |-> [e EXCEPT !.emptyPosition = r.model.emptyPosition],
      ret |-> r.ret]

\* getBoard() returning this.board itself instead of a copy
getBoardRowsShared(h, e, fresh) == [heap |-> h, rows |-> e.rows]

\* getBoard() with its allocation: this.board.map(row => [...row]) makes a
\* new array for every row, here at the references fresh
getBoardRows(h, e, fresh) ==
  [heap |-> [i \in DOMAIN h |->
               IF \E r \in DOMAIN fresh : fresh[r] = i
               THEN getBoard(engineAt(h, e))[CHOOSE r \in DOMAIN fresh : fresh[r] = i]
               ELSE h[i]],
   rows |-> fresh]

\* handleReceivedGameStart's engine, holding the rows it was handed
installRows(h, dimension, rows) ==
  LET m == installBoard(dimension, [r \in DOMAIN rows |-> h[rows[r]]])
  IN [dimension |-> m.dimension, rows |-> rows, emptyPosition |-> m.emptyPosition]

\* references of the rows the origin's constructor allocates, and of the rows
\* a snapshot allocates (the rows of the snapshot before it are garbage then)
OriginRows(n) == [r \in 0..(n - 1) |-> r + 1]
SnapshotRows(n) == [r \in 0..(n - 1) |-> n + r + 1]

NoTwinOp(h, o, r) ==
  [name |-> "snapshot", row |-> 0, col |-> 0, ret1 |-> TRUE, ret2 |-> TRUE,
   before1 |-> engineAt(h, o), before2 |-> engineAt(h, r), n |-> 0]

\* new PuzzleModel(d), then a second engine installed from its getBoard()
TwinOf(d) ==
  LET m == NewPuzzleModel(d)
      n == m.dimension
      o == [dimension |-> n, rows |-> OriginRows(n), emptyPosition |-> m.emptyPosition]
      h0 == [i \in 1..(2 * n) |-> IF i <= n THEN m.board[i - 1] ELSE << >>]
      g == getBoardRows(h0, o, SnapshotRows(n))
  IN [heap |-> g.heap, origin |-> o, replica |-> installRows(g.heap, n, g.rows)]

TwinAt(d) ==
  /\ heap = TwinOf(d).heap
  /\ origin = TwinOf(d).origin
  /\ replica = TwinOf(d).replica
  /\ tw = NoTwinOp(heap, origin, replica)
  /\ paired = TRUE

\* the pair at rest while another specification runs
TwinStart == TwinAt(MinDimension)

\* the engine of SpecEngine, at rest while the session runs
EngineStart ==
  /\ model = NewPuzzleModel(MinDimension)
  /\ op = NoOp
  /\ prev = model
  /\ shuf = Idle
  /\ nops = 0

EngineInit ==
  /\ \E d \in ConstructDims : model = NewPuzzleModel(d) /\ op = Constructed(d)
  /\ prev = model
  /\ shuf = Idle
  /\ nops = 0
  /\ SessionStart
  /\ TwinStart

\* operations explored on an engine of this dimension
OpsOn(m) == IF m.dimension <= MaxDim THEN MaxOps ELSE MaxLargeOps

MoveTile(row, col) ==
  /\ ~shuf.active
  /\ nops < OpsOn(model)
  /\ LET r == moveTile(model, row, col)
     IN /\ model' = r.model
        /\ op' = [name |-> "moveTile", row |-> row, col |-> col, ret |-> r.ret,
                   tiles |-> << >>]
  /\ prev' = model
  /\ nops' = nops + 1
  /\ UNCHANGED shuf
  /\ UNCHANGED <<svars, tvars, pvars>>

Reset ==
  /\ ~shuf.active
  /\ nops < OpsOn(model)
  /\ model' = reset(model)
  /\ op' = [name |-> "reset", row |-> 0, col |-> 0, ret |-> TRUE,
                   tiles |-> << >>]
  /\ prev' = model
  /\ nops' = nops + 1
  /\ UNCHANGED shuf
  /\ UNCHANGED <<svars, tvars, pvars>>

\* getAffectedTiles(row, col): a query, so the engine is handed on as it was.
\* A query straight after a query finds the engine the first one found, and
\* is explored from the state before it
GetAffectedTiles(row, col) ==
  /\ ~shuf.active
  /\ op.name # "getAffectedTiles"
  /\ nops <= MaxQueryOps
  /\ op' = [name |-> "getAffectedTiles", row |-> row, col |-> col, ret |-> TRUE,
            tiles |-> getAffectedTiles(model, row, col)]
  /\ model' = model
  /\ prev' = model
  /\ UNCHANGED <<shuf, nops>>
  /\ UNCHANGED <<svars, tvars, pvars>>

\* shuffle(moves) up to the first iteration of its loop
ShuffleBegin(moves) ==
  /\ ~shuf.active
  /\ nops < MaxOps
  /\ model.dimension \in ShuffleDims
  /\ model' = reset(model)
  /\ shuf' = [active |-> TRUE, i |-> 0, total |-> shuffleMoves(model, moves)]
  /\ op' = [name |-> "shuffle", row |-> moves, col |-> 0, ret |-> TRUE,
                   tiles |-> << >>]
  /\ prev' = model
  /\ nops' = nops + 1
  /\ UNCHANGED <<svars, tvars, pvars>>

\* one iteration of the loop: Math.random() picks an index of possibleMoves
ShuffleStep ==
  /\ shuf.active
  /\ shuf.i < shuf.total
  /\ \E randomIndex \in 1..Len(getPossibleMoves(model)) :
       LET mv == getPossibleMoves(model)[randomIndex]
           r == moveAdjacentTile(model, mv[1], mv[2])
       IN /\ model' = r.model
          /\ op' = [name |-> "shuffleStep", row |-> mv[1], col |-> mv[2], ret |-> r.ret,
                   tiles |-> << >>]
  /\ prev' = model
  /\ shuf' = [shuf EXCEPT !.i = shuf.i + 1]
  /\ UNCHANGED nops
  /\ UNCHANGED <<svars, tvars, pvars>>

\* after the loop: shuffle again when solved, else return
ShuffleEnd ==
  /\ shuf.active
  /\ shuf.i = shuf.total
  /\ IF isSolved(model)
     THEN /\ model' = reset(model)
          /\ shuf' = [active |-> TRUE, i |-> 0, total |-> shuffleMoves(model, shuf.total)]
          /\ op' = [name |-> "shuffle", row |-> shuf.total, col |-> 0, ret |-> TRUE,
                   tiles |-> << >>]
     ELSE /\ model' = model
          /\ shuf' = Idle
          /\ op' = [name |-> "shuffleReturn", row |-> 0, col |-> 0, ret |-> TRUE,
                   tiles |-> << >>]
  /\ prev' = model
  /\ UNCHANGED nops
  /\ UNCHANGED <<svars, tvars, pvars>>

EngineNext ==
  \/ \E row \in Coords(model) : \E col \in Coords(model) : MoveTile(row, col)
  \/ \E row \in Coords(model) : \E col \in Coords(model) : GetAffectedTiles(row, col)
  \/ Reset
  \/ \E moves \in ShuffleArgs : ShuffleBegin(moves)
  \/ ShuffleStep
  \/ ShuffleEnd

SpecEngine == EngineInit /\ [][EngineNext]_vars

(***************************************************************************)
(* SpecClassic: one Puzzle, constructed with any requested dimension and   *)
(* then asked to move any cell of the board or of the ring around it.      *)
(***************************************************************************)
ClassicInit ==
  /\ \E d \in ConstructDims : model = NewPuzzle(d)
  /\ op = [name |-> "constructor", row |-> 0, col |-> 0, ret |-> TRUE, threw |-> FALSE]
  /\ prev = model
  /\ shuf = Idle
  /\ nops = 0
  /\ SessionStart
  /\ TwinStart

ClassicMove(row, col) ==
  /\ nops < OpsOn(model)
  /\ LET r == move(model, row, col)
     IN /\ model' = r.puzzle
        /\ op' = [name |-> "move", row |-> row, col |-> col, ret |-> r.ret,
                  threw |-> r.threw]
  /\ prev' = model
  /\ nops' = nops + 1
  /\ UNCHANGED shuf
  /\ UNCHANGED <<svars, tvars, pvars>>

ClassicNext == \E row \in Coords(model) : \E col \in Coords(model) : ClassicMove(row, col)

SpecClassic == ClassicInit /\ [][ClassicNext]_vars

(***************************************************************************)
(* SpecTwin: the pair of engines under moves and snapshots.                *)
(***************************************************************************)
TwinInit ==
  /\ \E d \in ReqDims : TwinAt(d)
  /\ EngineStart
  /\ SessionStart

\* the same moveTile(row, col) on both engines, the origin first
MoveBoth(row, col) ==
  /\ tw.n < MaxTwinOps
  /\ LET a == moveTileAt(heap, origin, row, col)
         b == moveTileAt(a.heap, replica, row, col)
     IN /\ heap' = b.heap
        /\ origin' = a.engine
        /\ replica' = b.engine
        /\ tw' = [name |-> "both", row |-> row, col |-> col, ret1 |-> a.ret, ret2 |-> b.ret,
                  before1 |-> engineAt(heap, origin), before2 |-> engineAt(heap, replica),
                  n |-> tw.n + 1]
  /\ UNCHANGED paired
  /\ UNCHANGED <<evars, svars, pvars>>

\* moveTile(row, col) on the origin alone
MoveOrigin(row, col) ==
  /\ tw.n < MaxTwinOps
  /\ LET a == moveTileAt(heap, origin, row, col)
     IN /\ heap' = a.heap
        /\ origin' = a.engine
        /\ tw' = [name |-> "origin", row |-> row, col |-> col, ret1 |-> a.ret, ret2 |-> FALSE,
                  before1 |-> engineAt(heap, origin), before2 |-> engineAt(heap, replica),
                  n |-> tw.n + 1]
  /\ paired' = FALSE
  /\ UNCHANGED replica
  /\ UNCHANGED <<evars, svars, pvars>>

\* moveTile(row, col) on the replica alone
MoveReplica(row, col) ==
  /\ tw.n < MaxTwinOps
  /\ LET b == moveTileAt(heap, replica, row, col)
     IN /\ heap' = b.heap
        /\ replica' = b.engine
        /\ tw' = [name |-> "replica", row |-> row, col |-> col, ret1 |-> FALSE, ret2 |-> b.ret,
                  before1 |-> engineAt(heap, origin), before2 |-> engineAt(heap, replica),
                  n |-> tw.n + 1]
  /\ paired' = FALSE
  /\ UNCHANGED origin
  /\ UNCHANGED <<evars, svars, pvars>>

\* getBoard() of the origin installed in a fresh engine, which becomes the replica
TakeSnapshot ==
  /\ tw.n < MaxTwinOps
  /\ LET g == getBoardRows(heap, origin, SnapshotRows(origin.dimension))
     IN /\ heap' = g.heap
        /\ replica' = installRows(g.heap, origin.dimension, g.rows)
        /\ tw' = [name |-> "snapshot", row |-> 0, col |-> 0, ret1 |-> TRUE, ret2 |-> TRUE,
                  before1 |-> engineAt(heap, origin), before2 |-> engineAt(heap, replica),
                  n |-> tw.n + 1]
  /\ paired' = TRUE
  /\ UNCHANGED origin
  /\ UNCHANGED <<evars, svars, pvars>>

TwinNext ==
  \/ \E row \in Coords(origin) : \E col \in Coords(origin) : MoveBoth(row, col)
  \/ \E row \in Coords(origin) : \E col \in Coords(origin) : MoveOrigin(row, col)
  \/ \E row \in Coords(replica) : \E col \in Coords(replica) : MoveReplica(row, col)
  \/ TakeSnapshot

SpecTwin == TwinInit /\ [][TwinNext]_vars

(***************************************************************************)
(* The two-party session: Requester asks, Acceptor answers.                *)
(***************************************************************************)
\* PeerService.sendMove / startGame / sendResetGame / sendGameWon / sendToPeer:
\* what goes on the wire of the messages a handler hands over
Transmitted(p, out) == IF conn[p] THEN out ELSE << >>

\* the state after participant p ran a handler with result r; ev keeps the
\* last handler that can change a board or send a message, and is left alone
\* by timers and by screen changes
Ran(p, kind, msg, row, col, r) ==
  /\ ctl' = [ctl EXCEPT ![p] = r.c]
  /\ ev' = [p |-> p, kind |-> kind, msg |-> msg, row |-> row, col |-> col,
            before |-> Snapshot(ctl[p]), out |-> Transmitted(p, r.out)]

\* the multiplayer button of the welcome screen
ShowConnectionScreen(p) ==
  /\ ctl[p].screen = "welcome"
  /\ ctl' = [ctl EXCEPT ![p] = showConnectionScreen(ctl[p])]
  /\ UNCHANGED <<conn, net, ev, budget>>

\* the user enters the peer's id: PeerService.connectToPeer registers the
\* connection, or finds the open one, and the request is sent on it
ConnectToPeer(p) ==
  /\ ctl[p].screen = "connect"
  /\ ctl[p].waitingForPeerId = ""
  /\ Len(net[p]) + Len(net[Peer(p)]) < MaxPending
  /\ LET r == connectToPeer(ctl[p], Peer(p))
     IN /\ ctl' = [ctl EXCEPT ![p] = r.c]
        /\ ev' = [p |-> p, kind |-> "connectToPeer", msg |-> GameRequest, row |-> 0,
                  col |-> 0, before |-> Snapshot(ctl[p]), out |-> r.out]
        /\ net' = [net EXCEPT ![p] = net[p] \o r.out]
  /\ conn' = [conn EXCEPT ![p] = TRUE]
  /\ UNCHANGED budget

\* the 'connection' event: PeerService.handleIncomingConnection
IncomingConnection(p) ==
  /\ conn[Peer(p)]
  /\ ~conn[p]
  /\ conn' = [conn EXCEPT ![p] = TRUE]
  /\ UNCHANGED <<ctl, net, ev, budget>>

\* the user accepts in the game request dialog
AcceptRequest(p) ==
  /\ ctl[p].requestFrom # ""
  /\ LET r == handleGameRequestResponse(ctl[p], TRUE, ctl[p].requestFrom)
     IN /\ Ran(p, "accept", GameRequest, 0, 0, r)
        /\ net' = [net EXCEPT ![p] = net[p] \o Transmitted(p, r.out)]
  /\ UNCHANGED <<conn, budget>>

\* the 'data' event of the connection: the oldest undelivered message of the
\* peer is handled
Deliver(p) ==
  /\ conn[p]
  /\ net[Peer(p)] # << >>
  /\ Head(net[Peer(p)]).type # "close"
  /\ LET data == Head(net[Peer(p)])
     IN \E shuffled \in (IF data.type = "game-accept" THEN HostShuffleChoices ELSE {NullModel}) :
          LET r == handleData(ctl[p], data, Peer(p), shuffled)
          IN /\ Ran(p, "receive", data, data.row, data.col, r)
             /\ net' = [net EXCEPT ![Peer(p)] = Tail(net[Peer(p)]),
                                   ![p] = net[p] \o Transmitted(p, r.out)]
  /\ UNCHANGED <<conn, budget>>

\* the user selects a tile: the view offers the tiles (not the empty cell)
\* and passes the click on while it is not animating
TileClick(p, row, col) ==
  /\ ctl[p].screen = "game"
  /\ ctl[p].hasModel
  /\ <<row, col>> \in Cells(ctl[p].model)
  /\ ctl[p].model.board[row][col] # 0
  /\ ~ctl[p].isAnimating
  /\ budget.clicks < MaxClicks
  /\ LET r == handleTileClick(ctl[p], row, col)
     IN /\ Ran(p, "tileClick", GameRequest, row, col, r)
        /\ net' = [net EXCEPT ![p] = net[p] \o Transmitted(p, r.out)]
  /\ budget' = [budget EXCEPT !.clicks = budget.clicks + 1]
  /\ UNCHANGED conn

\* the user presses Shuffle
ShuffleClick(p) ==
  /\ ctl[p].screen = "game"
  /\ budget.resets[Requester] + budget.resets[Acceptor] < MaxResets
  /\ \E shuffled \in ShuffleChoices(ctl[p]) :
       LET r == resetGame(ctl[p], shuffled)
       IN /\ Ran(p, "shuffleClick", GameRequest, 0, 0, r)
          /\ net' = [net EXCEPT ![p] = net[p] \o Transmitted(p, r.out)]
  /\ budget' = [budget EXCEPT !.resets[p] = budget.resets[p] + 1]
  /\ UNCHANGED conn

\* transitionend (or its fallback timer) in PuzzleView.animateTileMove
TransitionEnd(p) ==
  /\ ctl[p].isAnimating
  /\ ctl' = [ctl EXCEPT ![p].isAnimating = FALSE]
  /\ UNCHANGED <<conn, net, ev, budget>>

\* the setTimeout of GameController.handleTileClick
MoveTimeout(p) ==
  /\ ctl[p].isMoving
  /\ ctl' = [ctl EXCEPT ![p].isMoving = FALSE]
  /\ UNCHANGED <<conn, net, ev, budget>>

Init == EngineStart /\ SessionStart /\ TwinStart

Next ==
  \/ ShowConnectionScreen(Requester) /\ UNCHANGED <<evars, tvars, pvars>>
  \/ ConnectToPeer(Requester) /\ UNCHANGED <<evars, tvars, pvars>>
  \/ \E p \in Participants : IncomingConnection(p) /\ UNCHANGED <<evars, tvars, pvars>>
  \/ \E p \in Participants : AcceptRequest(p) /\ UNCHANGED <<evars, tvars, pvars>>
  \/ \E p \in Participants : Deliver(p) /\ UNCHANGED <<evars, tvars, pvars>>
  \/ \E p \in Participants : \E row \in 0..(DefaultDimension - 1) :
       \E col \in 0..(DefaultDimension - 1) : TileClick(p, row, col) /\ UNCHANGED <<evars, tvars, pvars>>
  \/ \E p \in Participants : ShuffleClick(p) /\ UNCHANGED <<evars, tvars, pvars>>
  \/ \E p \in Participants : TransitionEnd(p) /\ UNCHANGED <<evars, tvars, pvars>>
  \/ \E p \in Participants : MoveTimeout(p) /\ UNCHANGED <<evars, tvars, pvars>>

Spec == Init /\ [][Next]_vars

(***************************************************************************)
(* SpecHandshake: the session up to the start of the game, with the size   *)
(* select of the welcome screen in play. Spec explores sessions in which   *)
(* that select is left at its initial value.                               *)
(***************************************************************************)
\* the options of #dimension-select
DimOptions == {3, 4, 5, 6, 7, 8}

\* the user picks another option while the welcome screen is on display
SelectDimension(p, d) ==
  /\ ctl[p].screen = "welcome"
  /\ ctl[p].selectValue # d
  /\ ctl' = [ctl EXCEPT ![p].selectValue = d]
  /\ UNCHANGED <<conn, net, ev, budget>>

HandshakeNext ==
  \/ \E p \in Participants : \E d \in DimOptions :
       SelectDimension(p, d) /\ UNCHANGED <<evars, tvars, pvars>>
  \/ ShowConnectionScreen(Requester) /\ UNCHANGED <<evars, tvars, pvars>>
  \/ ConnectToPeer(Requester) /\ UNCHANGED <<evars, tvars, pvars>>
  \/ \E p \in Participants : IncomingConnection(p) /\ UNCHANGED <<evars, tvars, pvars>>
  \/ \E p \in Participants : AcceptRequest(p) /\ UNCHANGED <<evars, tvars, pvars>>
  \/ \E p \in Participants : Deliver(p) /\ UNCHANGED <<evars, tvars, pvars>>

SpecHandshake == Init /\ [][HandshakeNext]_vars

(***************************************************************************)
(* SpecForeign: the Acceptor facing a peer that is not this program. The   *)
(* messages of that peer are whatever it chooses to put on the channel;    *)
(* they take the Requester's place on the wire, and no controller runs     *)
(* there.                                                                  *)
(***************************************************************************)
\* values a foreign board may hold: one below and one above 0..n*n-1 of the
\* smallest board
ForeignValues == -1..(MinDimension * MinDimension)
\* numbers of rows and of columns of a foreign board
ForeignSides == 1..MinDimension
\* the rectangular grids over those values
ForeignBoards ==
  UNION {[0..(rows - 1) -> [0..(cols - 1) -> ForeignValues]] :
           <<rows, cols>> \in ForeignSides \X ForeignSides}
\* the dimension field of a foreign GameStart
ForeignDims == {MinDimension, DefaultDimension}

ForeignMessages ==
  {GameRequest} \cup {GameStart(d, b) : <<d, b>> \in ForeignDims \X ForeignBoards}

\* the peer connects if it has not yet, and sends data once the Acceptor has
\* nothing pending; a GameStart is sent to an Acceptor that has no board yet
ForeignSend(data) ==
  /\ net[Requester] = << >>
  /\ net[Acceptor] = << >>
  /\ data.type = "game-start" => ~ctl[Acceptor].hasModel
  /\ conn' = [conn EXCEPT ![Requester] = TRUE]
  /\ net' = [net EXCEPT ![Requester] = <<data>>]
  /\ UNCHANGED <<ctl, ev, budget>>

\* the peer takes what the Acceptor sent off the channel
ForeignReceive ==
  /\ net[Acceptor] # << >>
  /\ net' = [net EXCEPT ![Acceptor] = Tail(net[Acceptor])]
  /\ UNCHANGED <<ctl, conn, ev, budget>>

ForeignNext ==
  \/ \E data \in ForeignMessages : ForeignSend(data) /\ UNCHANGED <<evars, tvars, pvars>>
  \/ ForeignReceive /\ UNCHANGED <<evars, tvars, pvars>>
  \/ IncomingConnection(Acceptor) /\ UNCHANGED <<evars, tvars, pvars>>
  \/ AcceptRequest(Acceptor) /\ UNCHANGED <<evars, tvars, pvars>>
  \/ Deliver(Acceptor) /\ UNCHANGED <<evars, tvars, pvars>>

SpecForeign == Init /\ [][ForeignNext]_vars

(***************************************************************************)
(* The waiting dialog and its Cancel button, and the end of a connection.  *)
(***************************************************************************)
\* the timeout connectToPeer set fires
WaitingTimeout(p) ==
  /\ ctl[p].waitTimer
  /\ ctl' = [ctl EXCEPT ![p] = showWaitingForAcceptScreen(ctl[p])]
  /\ UNCHANGED <<conn, net, ev, budget>>

\* the Cancel button of the waiting dialog: closeModal, then the handler
CancelWaiting(p) ==
  /\ ctl[p].waitingShown
  /\ Ran(p, "cancel", GameRequest, 0, 0,
         Result(cancelWaitingForAccept(closeModal(ctl[p])), << >>))
  /\ UNCHANGED <<conn, net, budget>>

\* the 'close' or 'error' event of p's connection: the entry is deleted, no
\* connection is left and onConnectionStatusCallback(false, false) runs. What
\* was in flight is lost, and the peer's end raises its own event later
Close(p) ==
  /\ conn[p]
  /\ Ran(p, "close", ConnClosed, 0, 0,
         handleConnectionStatus(ctl[p], FALSE, FALSE, NullModel))
  /\ conn' = [q \in Participants |-> FALSE]
  /\ net' = [q \in Participants |->
               IF q = p /\ conn[Peer(p)] THEN <<ConnClosed>> ELSE << >>]
  /\ UNCHANGED budget

\* the 'close' event at the other end
CloseNoticed(p) ==
  /\ net[Peer(p)] # << >>
  /\ Head(net[Peer(p)]).type = "close"
  /\ Ran(p, "close", ConnClosed, 0, 0,
         handleConnectionStatus(ctl[p], FALSE, FALSE, NullModel))
  /\ conn' = [conn EXCEPT ![p] = FALSE]
  /\ net' = [net EXCEPT ![Peer(p)] = Tail(net[Peer(p)])]
  /\ UNCHANGED budget

\* the user declines in the game request dialog
DeclineRequest(p) ==
  /\ ctl[p].requestFrom # ""
  /\ LET r == handleGameRequestResponse(ctl[p], FALSE, ctl[p].requestFrom)
     IN /\ Ran(p, "decline", GameRequest, 0, 0, r)
        /\ net' = [net EXCEPT ![p] = net[p] \o Transmitted(p, r.out)]
  /\ UNCHANGED <<conn, budget>>

\* the user enters their own id on the connection screen
ConnectToOwnId(p) ==
  /\ ctl[p].screen = "connect"
  /\ LET r == connectToPeerId(ctl[p], p, p)
     IN /\ ctl' = [ctl EXCEPT ![p] = r.c]
        /\ ev' = [p |-> p, kind |-> "connectToOwnId", msg |-> GameRequest, row |-> 0,
                  col |-> 0, before |-> Snapshot(ctl[p]), out |-> r.out]
        /\ net' = [net EXCEPT ![p] = net[p] \o r.out]
  /\ conn' = [conn EXCEPT ![p] = conn[p] \/ PeerService_connectToPeer(p, p)]
  /\ UNCHANGED budget

(***************************************************************************)
(* SpecLobby: the Requester's waiting dialog comes up, and a pending       *)
(* request can be cancelled and sent again.                                *)
(***************************************************************************)
LobbyNext ==
  \/ ShowConnectionScreen(Requester) /\ UNCHANGED <<evars, tvars, pvars>>
  \/ ConnectToPeer(Requester) /\ UNCHANGED <<evars, tvars, pvars>>
  \/ \E p \in Participants : IncomingConnection(p) /\ UNCHANGED <<evars, tvars, pvars>>
  \/ \E p \in Participants : AcceptRequest(p) /\ UNCHANGED <<evars, tvars, pvars>>
  \/ \E p \in Participants : Deliver(p) /\ UNCHANGED <<evars, tvars, pvars>>
  \/ \E p \in Participants : WaitingTimeout(p) /\ UNCHANGED <<evars, tvars, pvars>>
  \/ \E p \in Participants : CancelWaiting(p) /\ UNCHANGED <<evars, tvars, pvars>>
  \/ \E p \in Participants : DeclineRequest(p) /\ UNCHANGED <<evars, tvars, pvars>>
  \/ ConnectToOwnId(Requester) /\ UNCHANGED <<evars, tvars, pvars>>

SpecLobby == Init /\ [][LobbyNext]_vars

(***************************************************************************)
(* SpecCrossed: either participant may ask the other, so two requests can  *)
(* cross on the wire.                                                      *)
(***************************************************************************)
CrossedNext ==
  \/ \E p \in Participants : ShowConnectionScreen(p) /\ UNCHANGED <<evars, tvars, pvars>>
  \/ \E p \in Participants : ConnectToPeer(p) /\ UNCHANGED <<evars, tvars, pvars>>
  \/ \E p \in Participants : IncomingConnection(p) /\ UNCHANGED <<evars, tvars, pvars>>
  \/ \E p \in Participants : AcceptRequest(p) /\ UNCHANGED <<evars, tvars, pvars>>
  \/ \E p \in Participants : Deliver(p) /\ UNCHANGED <<evars, tvars, pvars>>

SpecCrossed == Init /\ [][CrossedNext]_vars

(***************************************************************************)
(* SpecClose: a session in which the connection can close or fail at any   *)
(* time, and the participants go on selecting tiles.                       *)
(***************************************************************************)
CloseNext ==
  \/ ShowConnectionScreen(Requester) /\ UNCHANGED <<evars, tvars, pvars>>
  \/ ConnectToPeer(Requester) /\ UNCHANGED <<evars, tvars, pvars>>
  \/ \E p \in Participants : IncomingConnection(p) /\ UNCHANGED <<evars, tvars, pvars>>
  \/ \E p \in Participants : AcceptRequest(p) /\ UNCHANGED <<evars, tvars, pvars>>
  \/ \E p \in Participants : Deliver(p) /\ UNCHANGED <<evars, tvars, pvars>>
  \/ \E p \in Participants : \E row \in 0..(DefaultDimension - 1) :
       \E col \in 0..(DefaultDimension - 1) : TileClick(p, row, col) /\ UNCHANGED <<evars, tvars, pvars>>
  \/ \E p \in Participants : TransitionEnd(p) /\ UNCHANGED <<evars, tvars, pvars>>
  \/ \E p \in Participants : MoveTimeout(p) /\ UNCHANGED <<evars, tvars, pvars>>
  \/ \E p \in Participants : Close(p) /\ UNCHANGED <<evars, tvars, pvars>>
  \/ \E p \in Participants : CloseNoticed(p) /\ UNCHANGED <<evars, tvars, pvars>>

SpecClose == Init /\ [][CloseNext]_vars

(***************************************************************************)
(* SpecSolo: either participant may play alone before, between and after   *)
(* sessions, and leave a game or the connection screen by its back button. *)
(***************************************************************************)
\* the single player button of the welcome screen
StartSoloGame(p) ==
  /\ ctl[p].screen = "welcome"
  /\ budget.solos < MaxSolos
  /\ \E shuffled \in HostShuffleChoices :
       LET r == startSinglePlayerGame(ctl[p], shuffled)
       IN /\ Ran(p, "solo", GameRequest, 0, 0, r)
          /\ net' = [net EXCEPT ![p] = net[p] \o Transmitted(p, r.out)]
  /\ budget' = [budget EXCEPT !.solos = budget.solos + 1]
  /\ UNCHANGED conn

\* the back button of the game screen or of the connection screen; in an
\* active session PeerService.close() closes the connection, what was in
\* flight is lost and the peer's end raises its 'close' event later
BackToWelcome(p) ==
  /\ ctl[p].screen \in {"game", "connect"}
  /\ budget.backs < MaxBacks
  /\ budget' = [budget EXCEPT !.backs = budget.backs + 1]
  /\ Ran(p, "back", GameRequest, 0, 0, Result(backToWelcomePressed(ctl[p]), << >>))
  /\ IF ctl[p].isMultiplayerActive
     THEN /\ conn' = [q \in Participants |-> FALSE]
          /\ net' = [q \in Participants |->
                       IF q = p /\ conn[Peer(p)] THEN <<ConnClosed>> ELSE << >>]
     ELSE UNCHANGED <<conn, net>>

SoloNext ==
  \/ StartSoloGame(Acceptor) /\ UNCHANGED <<evars, tvars, pvars>>
  \/ ShowConnectionScreen(Requester) /\ UNCHANGED <<evars, tvars, pvars>>
  \/ ConnectToPeer(Requester) /\ UNCHANGED <<evars, tvars, pvars>>
  \/ \E p \in Participants : IncomingConnection(p) /\ UNCHANGED <<evars, tvars, pvars>>
  \/ \E p \in Participants : AcceptRequest(p) /\ UNCHANGED <<evars, tvars, pvars>>
  \/ \E p \in Participants : Deliver(p) /\ UNCHANGED <<evars, tvars, pvars>>
  \/ \E p \in Participants : \E row \in 0..(DefaultDimension - 1) :
       \E col \in 0..(DefaultDimension - 1) : TileClick(p, row, col) /\ UNCHANGED <<evars, tvars, pvars>>
  \/ \E p \in Participants : TransitionEnd(p) /\ UNCHANGED <<evars, tvars, pvars>>
  \/ \E p \in Participants : MoveTimeout(p) /\ UNCHANGED <<evars, tvars, pvars>>

SpecSolo == Init /\ [][SoloNext]_vars

(***************************************************************************)
(* SpecLeave: sessions that end, by a back button or by the connection     *)
(* closing, with single player games before and after them.                *)
(***************************************************************************)
LeaveNext ==
  \/ StartSoloGame(Acceptor) /\ UNCHANGED <<evars, tvars, pvars>>
  \/ BackToWelcome(Acceptor) /\ UNCHANGED <<evars, tvars, pvars>>
  \/ ShowConnectionScreen(Requester) /\ UNCHANGED <<evars, tvars, pvars>>
  \/ ConnectToPeer(Requester) /\ UNCHANGED <<evars, tvars, pvars>>
  \/ \E p \in Participants : IncomingConnection(p) /\ UNCHANGED <<evars, tvars, pvars>>
  \/ \E p \in Participants : AcceptRequest(p) /\ UNCHANGED <<evars, tvars, pvars>>
  \/ \E p \in Participants : Deliver(p) /\ UNCHANGED <<evars, tvars, pvars>>
  \/ \E p \in Participants : \E row \in 0..(DefaultDimension - 1) :
       \E col \in 0..(DefaultDimension - 1) :
         /\ budget.clicks < MaxLeaveClicks
         /\ TileClick(p, row, col)
         /\ UNCHANGED <<evars, tvars, pvars>>
  \/ \E p \in Participants : ShuffleClick(p) /\ UNCHANGED <<evars, tvars, pvars>>
  \/ \E p \in Participants : TransitionEnd(p) /\ UNCHANGED <<evars, tvars, pvars>>
  \/ \E p \in Participants : MoveTimeout(p) /\ UNCHANGED <<evars, tvars, pvars>>
  \/ \E p \in Participants : CloseNoticed(p) /\ UNCHANGED <<evars, tvars, pvars>>

SpecLeave == Init /\ [][LeaveNext]_vars

(***************************************************************************)
(* SpecDiscovery: the PeerDiscoveryService instances of the participants   *)
(* on one channel. A BroadcastChannel hands a message to every other       *)
(* listener of its name; any script of the origin can post to it, with     *)
(* whatever from and to.                                                   *)
(***************************************************************************)
\* channel.postMessage by instance i, or by another script when i is ""
Post(i, message) ==
  /\ \A j \in Participants : Len(chan[j]) < MaxChannel
  /\ chan' = [j \in Participants |->
                IF j = i \/ disc[j].closed THEN chan[j] ELSE Append(chan[j], message)]
  /\ UNCHANGED <<disc, called, svc, sev>>

\* the heartbeat: announce()
Announce(i) ==
  /\ ~disc[i].closed
  /\ Post(i, DiscoveryMessage("announce", i, ""))

\* requestGame, acceptGame, declineGame, sendOffer, sendAnswer
SendAddressed(i, type, peerId) ==
  /\ ~disc[i].closed
  /\ Post(i, DiscoveryMessage(type, i, peerId))

\* PeerDiscoveryService.close
DiscoveryClose(i) ==
  /\ ~disc[i].closed
  /\ \A j \in Participants : Len(chan[j]) < MaxChannel
  /\ chan' = [j \in Participants |->
                IF j = i THEN << >>
                ELSE IF disc[j].closed THEN chan[j]
                ELSE Append(chan[j], DiscoveryMessage("leave", i, ""))]
  /\ disc' = [disc EXCEPT ![i].closed = TRUE]
  /\ UNCHANGED <<called, svc, sev>>

\* the cleanup interval finds a peer not seen for 15 seconds
Cleanup(i, id) ==
  /\ ~disc[i].closed
  /\ id \in disc[i].peers
  /\ disc' = [disc EXCEPT ![i].peers = disc[i].peers \ {id}]
  /\ UNCHANGED <<chan, called, svc, sev>>

\* another script of the origin posts
ForeignPost(message) == Post("", message)

\* channel.onmessage
Receive(i) ==
  /\ chan[i] # << >>
  /\ LET message == Head(chan[i])
         r == handleMessage(disc[i], i, message)
     IN /\ disc' = [disc EXCEPT ![i] = r.d]
        /\ called' = [at |-> i, message |-> message, callback |-> r.callback]
  /\ chan' = [chan EXCEPT ![i] = Tail(chan[i])]
  /\ UNCHANGED <<svc, sev>>

AddressedTypes == DiscoveryTypes \ {"announce", "leave"}

DiscoveryNext ==
  \/ \E i \in Participants : Announce(i) /\ UNCHANGED <<evars, svars, tvars>>
  \/ \E i \in Participants : \E type \in AddressedTypes : \E peerId \in DiscoveryIds :
       SendAddressed(i, type, peerId) /\ UNCHANGED <<evars, svars, tvars>>
  \/ \E i \in Participants : DiscoveryClose(i) /\ UNCHANGED <<evars, svars, tvars>>
  \/ \E i \in Participants : \E id \in DiscoveryIds :
       Cleanup(i, id) /\ UNCHANGED <<evars, svars, tvars>>
  \/ \E type \in DiscoveryTypes : \E from \in DiscoveryIds : \E to \in DiscoveryIds \cup {""} :
       ForeignPost(DiscoveryMessage(type, from, to)) /\ UNCHANGED <<evars, svars, tvars>>
  \/ \E i \in Participants : Receive(i) /\ UNCHANGED <<evars, svars, tvars>>

SpecDiscovery == Init /\ [][DiscoveryNext]_vars

(***************************************************************************)
(* SpecRegistry: the PeerService of the Requester asked to connect, handed *)
(* incoming connections, and told of connections opening and closing.      *)
(***************************************************************************)
\* the user enters a peer id on the connection screen
RegistryConnect(peerId) ==
  /\ Len(svc.conns) + 2 <= MaxConns
  /\ svc' = registryRequestGame(svc, Requester, peerId)
  /\ sev' = [kind |-> "connectToPeer", conn |-> 0, before |-> svc, notified |-> FALSE]
  /\ UNCHANGED <<disc, chan, called>>

\* the 'connection' event of the Peer
RegistryIncoming(peerId) ==
  /\ Len(svc.conns) < MaxConns
  /\ svc' = handleIncomingConnection(svc, peerId)
  /\ sev' = [kind |-> "connection", conn |-> Len(svc.conns) + 1, before |-> svc,
             notified |-> FALSE]
  /\ UNCHANGED <<disc, chan, called>>

\* the 'open' event of connection k
RegistryOpen(k) ==
  /\ k \in 1..Len(svc.conns)
  /\ ~svc.conns[k].open
  /\ ~svc.conns[k].closed
  /\ svc' = connectionOpened(svc, k)
  /\ sev' = [kind |-> "open", conn |-> k, before |-> svc, notified |-> FALSE]
  /\ UNCHANGED <<disc, chan, called>>

\* the 'close' or the 'error' event of connection k
RegistryClose(k) ==
  /\ k \in 1..Len(svc.conns)
  /\ ~svc.conns[k].closed
  /\ LET r == connectionClosed(svc, k)
     IN /\ svc' = r.s
        /\ sev' = [kind |-> "close", conn |-> k, before |-> svc, notified |-> r.notified]
  /\ UNCHANGED <<disc, chan, called>>

RegistryNext ==
  \/ \E peerId \in RemoteIds \cup {Requester} :
       RegistryConnect(peerId) /\ UNCHANGED <<evars, svars, tvars>>
  \/ \E peerId \in RemoteIds : RegistryIncoming(peerId) /\ UNCHANGED <<evars, svars, tvars>>
  \/ \E k \in 1..MaxConns : RegistryOpen(k) /\ UNCHANGED <<evars, svars, tvars>>
  \/ \E k \in 1..MaxConns : RegistryClose(k) /\ UNCHANGED <<evars, svars, tvars>>

SpecRegistry == Init /\ [][RegistryNext]_vars

(***************************************************************************)
(* Properties of the session, checked under Spec.                          *)
(***************************************************************************)
HasMoveMade(out) == \E i \in 1..Len(out) : out[i].type = "move-made"

\* both participants are in the game: the requester as host, the acceptor as
\* guest, each with a board
InGame ==
  /\ ctl[Requester].isMultiplayerActive /\ ctl[Requester].isHost /\ ctl[Requester].hasModel
  /\ ctl[Acceptor].isMultiplayerActive /\ ~ctl[Acceptor].isHost /\ ctl[Acceptor].hasModel

\* C1: once the guest has processed the host's latest GameStart, the boards of
\* host and guest are identical whenever no message is in flight, whatever
\* the interleaving of local moves, host resets and deliveries. (No message
\* in flight includes no GameStart in flight; the guest's own Shuffle presses
\* are not among the events the claim ranges over.)
C1_BoardsAgreeWhenQuiet ==
  (/\ InGame
   /\ net[Requester] = << >>
   /\ net[Acceptor] = << >>
   /\ budget.resets[Acceptor] = 0)
  => ctl[Requester].model.board = ctl[Acceptor].model.board

\* C2: a multiplayer-active session with a board that receives MoveMade(row,
\* col) for a legal target has, after the handler, the board moveTile(row,
\* col) gives on its board before the message.
C2_ReceivedMoveApplied ==
  (/\ ev.kind = "receive"
   /\ ev.msg.type = "move-made"
   /\ ev.before.isMultiplayerActive
   /\ ev.before.hasModel
   /\ LegalTarget(ev.before.model, ev.row, ev.col))
  => ctl[ev.p].model.board = moveTile(ev.before.model, ev.row, ev.col).model.board

\* C3: a local tile selection transmits MoveMade(row, col) only if the
\* selection changed the local board through moveTile(row, col); a rejected
\* or ignored selection transmits nothing.
C3_MoveSentOnlyIfApplied ==
  (ev.kind = "tileClick" /\ HasMoveMade(ev.out))
  => /\ ev.before.hasModel
     /\ ctl[ev.p].model = moveTile(ev.before.model, ev.row, ev.col).model
     /\ ctl[ev.p].model.board # ev.before.model.board

\* C4: handling a MoveMade from the peer transmits nothing, and every
\* MoveMade that is transmitted comes from a local tile selection.
C4_NoEcho ==
  /\ (ev.kind = "receive" /\ ev.msg.type = "move-made") => ev.out = << >>
  /\ HasMoveMade(ev.out) => ev.kind = "tileClick"

\* an active session with a board has just handled a MoveMade whose target
\* was a legal move on that board
C4_Witness ==
  /\ ev.kind = "receive"
  /\ ev.msg.type = "move-made"
  /\ ev.before.isMultiplayerActive
  /\ ev.before.hasModel
  /\ LegalTarget(ev.before.model, ev.row, ev.col)
  /\ conn[ev.p]

HasGameWon(out) == \E i \in 1..Len(out) : out[i].type = "game-won"

\* the cells of a board holding 0
ZeroCells(board) ==
  UNION {{<<r, c>> : c \in {x \in DOMAIN board[r] : board[r][x] = 0}} : r \in DOMAIN board}

\* C12: a guest that processes GameStart(dimension, board) holds that board,
\* which is the board the host held when it sent the message; its
\* emptyPosition is the cell of that board holding 0, and its engine is not
\* solved.
C12_GameStartInstalled ==
  /\ (ev.kind = "receive" /\ ev.msg.type = "game-start") =>
       LET m == ctl[ev.p].model
       IN /\ ev.p = Acceptor
          /\ ctl[ev.p].hasModel
          /\ m.dimension = ev.msg.dimension
          /\ m.board = ev.msg.board
          /\ ZeroCells(m.board) = {<<m.emptyPosition.row, m.emptyPosition.col>>}
          /\ ~isSolved(m)
  /\ \A i \in 1..Len(ev.out) :
       ev.out[i].type = "game-start" =>
         /\ ev.out[i].board = ctl[ev.p].model.board
         /\ ev.out[i].dimension = ctl[ev.p].model.dimension

\* the guest has just processed a GameStart whose 0 is away from the
\* bottom-right cell, the host having moved a tile since it sent the message
C12_Witness ==
  /\ ev.kind = "receive"
  /\ ev.msg.type = "game-start"
  /\ ev.p = Acceptor
  /\ ev.msg.board[DefaultDimension - 1][DefaultDimension - 1] # 0
  /\ ctl[Requester].model.board # ev.msg.board

\* C15: while it is connected as guest, a participant's board changes only
\* when it processes a GameStart or applies a move; no user action open to
\* it, the Shuffle control included, shuffles or resets its engine.
C15_GuestNeverShuffles ==
  (/\ ev.p = Acceptor
   /\ ev.before.isMultiplayerActive
   /\ ~ctl[Acceptor].isHost
   /\ ev.before.hasModel
   /\ ctl[Acceptor].model.board # ev.before.model.board)
  => \/ ev.kind = "tileClick"
     \/ (ev.kind = "receive" /\ ev.msg.type \in {"game-start", "move-made"})

\* C16: a reset from the connected host's own UI shuffles a new unsolved
\* board and transmits ResetGame followed by a GameStart carrying exactly
\* that board; processing ResetGame leaves the receiver's board unchanged,
\* and the guest's board is replaced when it processes the GameStart.
C16_HostResetRestarts ==
  /\ (/\ ev.kind = "shuffleClick"
      /\ ev.p = Requester
      /\ ev.before.isMultiplayerActive
      /\ ctl[Requester].isHost) =>
       /\ ~isSolved(ctl[Requester].model)
       /\ ev.out = <<ResetGame,
                     GameStart(ctl[Requester].model.dimension, ctl[Requester].model.board)>>
  /\ (ev.kind = "receive" /\ ev.msg.type = "reset-game") =>
       /\ ctl[ev.p].model = ev.before.model
       /\ ctl[ev.p].hasModel = ev.before.hasModel
       /\ ev.out = << >>
  /\ (ev.kind = "receive" /\ ev.msg.type = "game-start" /\ ev.p = Acceptor) =>
       ctl[Acceptor].model.board = ev.msg.board

\* the guest, holding a board, has just processed the ResetGame of a reset
\* made from the host's UI, and its board is not the host's new one
C16_Witness ==
  /\ ev.kind = "receive"
  /\ ev.msg.type = "reset-game"
  /\ ev.p = Acceptor
  /\ ev.before.hasModel
  /\ budget.resets[Requester] > 0
  /\ ctl[Acceptor].model.board # ctl[Requester].model.board

\* C19: WinAchieved is transmitted exactly when a local move just applied
\* makes isSolved() true, once for that move; a local selection that applies
\* no move, and a move received from the peer, never transmit it.
C19_WinSentOnSolvingMove ==
  /\ HasGameWon(ev.out) =>
       /\ ev.kind = "tileClick"
       /\ ctl[ev.p].model.board # ev.before.model.board
       /\ isSolved(ctl[ev.p].model)
       /\ Cardinality({i \in 1..Len(ev.out) : ev.out[i].type = "game-won"}) = 1
  /\ (/\ ev.kind = "tileClick"
      /\ ev.before.isMultiplayerActive
      /\ ev.before.hasModel
      /\ ctl[ev.p].model.board # ev.before.model.board
      /\ isSolved(ctl[ev.p].model)) => HasGameWon(ev.out)

\* C20: processing a WinAchieved from the peer sets the opponent-solved mark
\* and changes nothing else of the receiver (board, emptyPosition, move
\* count, role, connection state), and transmits nothing.
C20_OpponentWonFrame ==
  [][\A p \in Participants :
       (/\ conn[p]
        /\ net[Peer(p)] # << >>
        /\ Head(net[Peer(p)]).type = "game-won"
        /\ net'[Peer(p)] = Tail(net[Peer(p)]))
       => /\ ctl'[p] = [ctl[p] EXCEPT !.opponentSolved = TRUE]
          /\ net'[p] = net[p]
          /\ conn' = conn
          /\ ev'.out = << >>]_vars

\* a participant with some moves counted has just processed a WinAchieved
C20_Witness ==
  /\ ev.kind = "receive"
  /\ ev.msg.type = "game-won"
  /\ ev.out = << >>
  /\ ctl[ev.p].opponentSolved
  /\ ctl[ev.p].hasModel
  /\ ctl[ev.p].moveCount > 0

\* C21: no handler leaves receivedMove set; in particular it is false once an
\* inbound MoveMade has been handled, so no local tile selection meets a
\* stale flag.
C21_ReceivedMoveFlagClear ==
  \A p \in Participants : ~ctl[p].receivedMove

\* an active session with a board has just handled a MoveMade whose target
\* was no legal move on that board, and its flag is false
C21_Witness ==
  /\ ev.kind = "receive"
  /\ ev.msg.type = "move-made"
  /\ ev.before.isMultiplayerActive
  /\ ev.before.hasModel
  /\ ~LegalTarget(ev.before.model, ev.row, ev.col)
  /\ ~ctl[ev.p].receivedMove

\* C23: an active session that has just handled a MoveMade whose target is
\* no legal move on its board has put up an error.
C23_IllegalMoveReported ==
  (/\ ev.kind = "receive"
   /\ ev.msg.type = "move-made"
   /\ ev.before.isMultiplayerActive
   /\ ev.before.hasModel
   /\ ~LegalTarget(ev.before.model, ev.row, ev.col))
  => ctl[ev.p].errorShown

(***************************************************************************)
(* Properties of the handshake, checked under SpecHandshake.               *)
(***************************************************************************)

\* C17: on becoming Connected(Host), within the handling of the acceptance,
\* the requester builds an engine of the selected dimension, shuffles it and
\* sends a GameStart whose dimension and board are those of its engine at
\* that moment; the board is not solved.
C17_HostStartsSelectedDimension ==
  (ev.kind = "receive" /\ ev.msg.type = "game-accept") =>
    LET c == ctl[ev.p]
    IN /\ c.hasModel
       /\ c.model.dimension = c.selectValue
       /\ ~isSolved(c.model)
       /\ \E i \in 1..Len(ev.out) : ev.out[i] = GameStart(c.model.dimension, c.model.board)

\* C18: the participant that receives GameAccept becomes connected as Host;
\* the participant that accepts becomes connected as Guest, and is Guest
\* whenever its GameAccept is on the channel.
C18_RolesAfterAccept ==
  /\ (ev.kind = "receive" /\ ev.msg.type = "game-accept") =>
       ctl[ev.p].isMultiplayerActive /\ ctl[ev.p].isHost
  /\ (ev.kind = "accept") =>
       /\ ctl[ev.p].isMultiplayerActive
       /\ ~ctl[ev.p].isHost
       /\ ev.out = <<GameAccept>>
  /\ \A p \in Participants :
       (\E i \in 1..Len(net[p]) : net[p][i].type = "game-accept") =>
         ctl[p].isMultiplayerActive /\ ~ctl[p].isHost

\* the requester has just processed the GameAccept of the acceptor
C18_Witness ==
  /\ ev.kind = "receive"
  /\ ev.msg.type = "game-accept"
  /\ ev.p = Requester
  /\ ctl[Requester].isHost
  /\ ctl[Acceptor].isMultiplayerActive
  /\ ~ctl[Acceptor].isHost

(***************************************************************************)
(* Properties of requests and connections, checked under SpecLobby,        *)
(* SpecCrossed and SpecClose.                                              *)
(***************************************************************************)
\* c with no dialog on display
NoDialog(c) == [c EXCEPT !.requestFrom = "", !.waitingShown = FALSE, !.errorShown = FALSE]

\* C24: pressing Cancel transmits nothing and leaves the board, the role and
\* the multiplayer-active flag of the requester, and the peer, as they were;
\* with a request pending it clears the pending peer and shows the connection
\* screen; with none pending nothing changes but the dialog going away.
C24_CancelClearsPendingOnly ==
  [][\A p \in Participants :
       CancelWaiting(p) =>
         (/\ net' = net
          /\ ev'.out = << >>
          /\ ctl'[Peer(p)] = ctl[Peer(p)]
          /\ ctl'[p].model = ctl[p].model
          /\ ctl'[p].hasModel = ctl[p].hasModel
          /\ ctl'[p].isHost = ctl[p].isHost
          /\ ctl'[p].isMultiplayerActive = ctl[p].isMultiplayerActive
          /\ (ctl[p].waitingForPeerId # "") =>
               (/\ ctl'[p].waitingForPeerId = ""
                /\ ctl'[p].screen = "connect")
          /\ (ctl[p].waitingForPeerId = "") => (NoDialog(ctl'[p]) = NoDialog(ctl[p])))]_vars

\* the Requester has just cancelled a pending request: it is back on the
\* connection screen with no pending peer, and the request is still on its
\* way to the peer
C24_Witness ==
  /\ ev.kind = "cancel"
  /\ ev.p = Requester
  /\ ~ev.before.isMultiplayerActive
  /\ ctl[Requester].waitingForPeerId = ""
  /\ ctl[Requester].screen = "connect"
  /\ ~ctl[Requester].waitingShown
  /\ net[Requester] = <<GameRequest>>

HasGameStart(out) == \E i \in 1..Len(out) : out[i].type = "game-start"

\* C31: handling a GameAccept from a peer the receiver has no pending request
\* to leaves the receiver's role, board and multiplayer-active flag as they
\* were and transmits no GameStart.
C31_AcceptNeedsPendingRequest ==
  [][\A p \in Participants :
       (/\ Deliver(p)
        /\ Head(net[Peer(p)]).type = "game-accept"
        /\ ctl[p].waitingForPeerId # Peer(p))
       => (/\ ctl'[p].isHost = ctl[p].isHost
           /\ ctl'[p].isMultiplayerActive = ctl[p].isMultiplayerActive
           /\ ctl'[p].model = ctl[p].model
           /\ ctl'[p].hasModel = ctl[p].hasModel
           /\ ~HasGameStart(ev'.out))]_vars

\* C33: a GameDecline from the awaited peer clears the pending request; one
\* that arrives with nothing pending, or from a peer other than the awaited
\* one, leaves the controller as it was; no GameDecline makes its receiver
\* multiplayer-active or has it send anything.
C33_DeclineClearsAwaitedOnly ==
  [][\A p \in Participants :
       /\ (Deliver(p) /\ Head(net[Peer(p)]).type = "game-decline")
          => (/\ ctl'[p].isMultiplayerActive = ctl[p].isMultiplayerActive
              /\ ev'.out = << >>
              /\ IF ctl[p].waitingForPeerId = Peer(p)
                 THEN ctl'[p].waitingForPeerId = ""
                 ELSE ctl'[p] = ctl[p])
       /\ handleData(ctl[p], GameDecline, Stranger, NullModel) = Result(ctl[p], << >>)]_vars

\* a GameDecline has been handled before the waiting dialog of the request
\* it answers came up, so before that request could be cancelled
C33_Witness ==
  /\ ev.kind = "receive"
  /\ ev.msg.type = "game-decline"
  /\ ctl[ev.p].waitingForPeerId = ""
  /\ ctl[ev.p].waitTimer
  /\ ctl[ev.p].screen = "connect"
  /\ ~ctl[ev.p].isMultiplayerActive

C30_AtMostOneHost ==
  ~(/\ ctl[Requester].isMultiplayerActive /\ ctl[Requester].isHost
    /\ ctl[Acceptor].isMultiplayerActive /\ ctl[Acceptor].isHost)

HasGameAccept(q) == \E i \in 1..Len(q) : q[i].type = "game-accept"

\* C32: a Guest whose GameAccept is still on the wire, so that the GameStart
\* of the session cannot have reached it yet, transmits no MoveMade and no
\* GameWon when its user selects a tile.
C32_GuestSilentBeforeGameStart ==
  [][\A p \in Participants : \A row, col \in 0..(DefaultDimension - 1) :
       (/\ TileClick(p, row, col)
        /\ ctl[p].isMultiplayerActive
        /\ ~ctl[p].isHost
        /\ HasGameAccept(net[p]))
       => (~HasMoveMade(ev'.out) /\ ~HasGameWon(ev'.out))]_vars

\* C34: a participant whose session is not multiplayer-active transmits
\* nothing when its user selects a tile or presses Shuffle, and a MoveMade
\* it receives leaves its board as it was.
C34_InactiveIsSilent ==
  [][\A p \in Participants :
       /\ (/\ ~ctl[p].isMultiplayerActive
           /\ \/ \E row, col \in 0..(DefaultDimension - 1) : TileClick(p, row, col)
              \/ ShuffleClick(p))
          => (ev'.out = << >> /\ net' = net)
       /\ (/\ ~ctl[p].isMultiplayerActive
           /\ Deliver(p)
           /\ Head(net[Peer(p)]).type = "move-made")
          => (ctl'[p].model = ctl[p].model /\ ctl'[p].hasModel = ctl[p].hasModel)]_vars

\* a participant that left a session, holds an open connection and a board,
\* has selected a movable tile
C34_Witness ==
  /\ ev.kind = "tileClick"
  /\ ~ev.before.isMultiplayerActive
  /\ ev.before.hasModel
  /\ ctl[ev.p].model # ev.before.model
  /\ conn[ev.p]
  /\ ev.out = << >>

\* C22: a participant in a multiplayer game whose connection has just closed
\* or failed is no longer in the game: it is back on the welcome screen.
C22_DisconnectReturnsToWelcome ==
  (/\ ev.kind = "close"
   /\ ev.before.isMultiplayerActive
   /\ ev.before.hasModel)
  => (/\ ~ctl[ev.p].isMultiplayerActive
      /\ ctl[ev.p].screen = "welcome")

(***************************************************************************)
(* Properties of a guest facing a foreign peer, checked under SpecForeign. *)
(***************************************************************************)
\* a GameStart board that is not an n-by-n grid with exactly one 0 and every
\* value in 0..n*n-1
Malformed(dimension, board) ==
  \/ DOMAIN board # 0..(dimension - 1)
  \/ \E r \in DOMAIN board : DOMAIN board[r] # 0..(dimension - 1)
  \/ Cardinality(ZeroCells(board)) # 1
  \/ \E r \in DOMAIN board : \E c \in DOMAIN board[r] :
       board[r][c] \notin 0..(dimension * dimension - 1)

\* C14: a guest that receives a GameStart with a malformed board does not
\* install the board, surfaces an error, and ends disconnected.
C14_MalformedGameStartRejected ==
  (/\ ev.kind = "receive"
   /\ ev.msg.type = "game-start"
   /\ ev.p = Acceptor
   /\ ev.before.isMultiplayerActive
   /\ Malformed(ev.msg.dimension, ev.msg.board))
  => /\ ctl[Acceptor].model = ev.before.model
     /\ ctl[Acceptor].hasModel = ev.before.hasModel
     /\ ctl[Acceptor].errorShown
     /\ ~ctl[Acceptor].isMultiplayerActive

(***************************************************************************)
(* Properties of the engine, checked under SpecEngine.                     *)
(***************************************************************************)

\* C5: in every state reachable through the constructor, moveTile, reset and
\* shuffle the board is an n-by-n grid holding a permutation of 0..n*n-1,
\* with exactly one cell holding 0.
C5_BoardIsPermutation ==
  LET n == model.dimension
  IN /\ DOMAIN model.board = 0..(n - 1)
     /\ \A r \in 0..(n - 1) : DOMAIN model.board[r] = 0..(n - 1)
     /\ {model.board[rc[1]][rc[2]] : rc \in Cells(model)} = 0..(n * n - 1)
     /\ Cardinality({rc \in Cells(model) : model.board[rc[1]][rc[2]] = 0}) = 1

\* a row shift over two or more tiles has just been applied on the largest board
C5_Witness ==
  /\ op.name = "moveTile" /\ op.ret
  /\ model.dimension = MaxDim
  /\ op.row = prev.emptyPosition.row
  /\ Abs(op.col - prev.emptyPosition.col) >= 2

\* C6: after every mutation emptyPosition is exactly the cell holding 0, and
\* after a successful moveTile(row, col) it is (row, col).
C6_EmptyPositionTracksZero ==
  /\ \A rc \in Cells(model) :
       (model.board[rc[1]][rc[2]] = 0) <=> (Pos(rc[1], rc[2]) = model.emptyPosition)
  /\ (op.name = "moveTile" /\ op.ret) => model.emptyPosition = Pos(op.row, op.col)

\* a column shift has just moved the empty cell
C6_Witness ==
  /\ op.name = "moveTile" /\ op.ret
  /\ op.col = prev.emptyPosition.col
  /\ model.emptyPosition # prev.emptyPosition

\* C7: canMoveTile(pos) is true exactly for the in-range cells that share a
\* row or column with the empty cell and are not the empty cell.
C7_CanMoveIffLegal ==
  \A row \in Coords(model) : \A col \in Coords(model) :
    canMoveTile(model, row, col) <=> LegalTarget(model, row, col)

\* C8: moveTile on an illegal target (off the empty cell's lines, the empty
\* cell itself, or out of range) returns false and changes nothing.
C8_IllegalMoveRejected ==
  (op.name = "moveTile" /\ ~LegalTarget(prev, op.row, op.col)) =>
    /\ op.ret = FALSE
    /\ model.board = prev.board
    /\ model.emptyPosition = prev.emptyPosition

\* C9: a moveTile on a legal target at line distance k moves each of the k
\* tiles between the target and the empty cell (target included) one step
\* toward the old empty cell, puts 0 at the target and changes no other cell.
C9_LineShift ==
  (op.name = "moveTile" /\ LegalTarget(prev, op.row, op.col)) =>
    LET e == prev.emptyPosition
        k == LineDistance(prev, op.row, op.col)
        dr == Sign(op.row - e.row)
        dc == Sign(op.col - e.col)
        seg(j) == <<e.row + j * dr, e.col + j * dc>>
    IN /\ op.ret
       /\ seg(k) = <<op.row, op.col>>
       /\ \A j \in 1..k :
            model.board[seg(j - 1)[1]][seg(j - 1)[2]] = prev.board[seg(j)[1]][seg(j)[2]]
       /\ model.board[op.row][op.col] = 0
       /\ \A rc \in Cells(prev) \ {seg(j) : j \in 0..k} :
            model.board[rc[1]][rc[2]] = prev.board[rc[1]][rc[2]]

\* a column shift over two or more tiles has just been applied
C9_Witness ==
  /\ op.name = "moveTile"
  /\ LegalTarget(prev, op.row, op.col)
  /\ op.col = prev.emptyPosition.col
  /\ LineDistance(prev, op.row, op.col) >= 2

RECURSIVE adjacentMovesToward(_, _, _, _)
\* single-step moves of the empty cell toward (row, col), counted
adjacentMovesToward(m, row, col, steps) ==
  IF m.emptyPosition = Pos(row, col) THEN [model |-> m, steps |-> steps]
  ELSE LET r == moveAdjacentTile(m,
                  m.emptyPosition.row + Sign(row - m.emptyPosition.row),
                  m.emptyPosition.col + Sign(col - m.emptyPosition.col))
       IN IF r.ret THEN adjacentMovesToward(r.model, row, col, steps + 1)
          ELSE [model |-> m, steps |-> -1]

\* C10: one moveTile on a legal target at line distance k gives the board and
\* emptyPosition of k successive single-step moves of the empty cell toward
\* the target.
C10_MoveIsAdjacentMoves ==
  /\ \A rc \in Cells(model) :
       LegalTarget(model, rc[1], rc[2]) =>
         LET a == adjacentMovesToward(model, rc[1], rc[2], 0)
             r == moveTile(model, rc[1], rc[2])
         IN /\ r.ret
            /\ a.steps = LineDistance(model, rc[1], rc[2])
            /\ r.model.board = a.model.board
            /\ r.model.emptyPosition = a.model.emptyPosition
  /\ (op.name = "moveTile" /\ LegalTarget(prev, op.row, op.col)) =>
       LET a == adjacentMovesToward(prev, op.row, op.col, 0)
       IN /\ model.board = a.model.board
          /\ model.emptyPosition = a.model.emptyPosition

\* a row shift of exactly MaxDim - 1 tiles, the longest on the largest board
C10_Witness ==
  /\ op.name = "moveTile"
  /\ LegalTarget(prev, op.row, op.col)
  /\ op.row = prev.emptyPosition.row
  /\ LineDistance(prev, op.row, op.col) = MaxDim - 1
  /\ MaxDim - 1 >= 2

\* the n x n board that reads 1, 2, ..., n * n - 1, 0 in row-major order
SolvedCells(n) ==
  LET reading == [k \in 1..(n * n) |-> IF k = n * n THEN 0 ELSE k]
  IN [r \in 0..(n - 1) |-> [c \in 0..(n - 1) |-> reading[r * n + c + 1]]]

\* m holds the solved board with the empty cell bottom-right, and says so
SolvedState(m) ==
  /\ m.board = SolvedCells(m.dimension)
  /\ m.emptyPosition = Pos(m.dimension - 1, m.dimension - 1)
  /\ isSolved(m)

\* C25: the dimension of an engine is the dimension asked for clamped to
\* 2..8, and an engine fresh from its constructor or from reset() holds the
\* solved board, the empty cell bottom-right, and reports isSolved().
C25_ClampedAndSolvedAfterReset ==
  /\ model.dimension \in 2..8
  /\ (op.name = "constructor") =>
       (model.dimension = (IF op.row < 2 THEN 2 ELSE IF op.row > 8 THEN 8 ELSE op.row))
  /\ (op.name \in {"constructor", "reset"}) => SolvedState(model)

\* reset() has just run on an engine of the largest dimension whose board was
\* not the solved one
C25_Witness ==
  /\ op.name = "reset"
  /\ model.dimension = 8
  /\ prev.board # SolvedCells(8)
  /\ prev.emptyPosition # Pos(7, 7)

RECURSIVE MoveClosure(_)
\* the engines moveTile can lead to from those of S
MoveClosure(S) ==
  LET T == S \cup {moveTile(m, rc[1], rc[2]).model :
                     <<m, rc>> \in {<<m, rc>> \in S \X ((0..MaxDim) \X (0..MaxDim)) :
                                      rc \in Cells(m)}}
  IN IF T = S THEN S ELSE MoveClosure(T)

\* C26: when shuffle() returns, the board is not the solved one, isSolved()
\* is false, and the engine can be reached from the solved engine by moves.
C26_ShuffleLeavesUnsolvedReachable ==
  (op.name = "shuffleReturn") =>
    (/\ model.board # SolvedCells(model.dimension)
     /\ ~isSolved(model)
     /\ model \in MoveClosure({[dimension |-> model.dimension,
                                 board |-> SolvedCells(model.dimension),
                                 emptyPosition |-> Pos(model.dimension - 1,
                                                       model.dimension - 1)]}))

\* shuffle() has just returned, unsolved, on an engine operated on before it
C26_Witness ==
  /\ op.name = "shuffleReturn"
  /\ prev = model
  /\ ~isSolved(model)
  /\ nops >= 2

\* the board of after is that of before with the tile at (row, col) and the
\* empty cell exchanged, (row, col) being in range and next to the empty cell
AdjacentSwap(before, after, row, col) ==
  /\ <<row, col>> \in Cells(before)
  /\ LineDistance(before, row, col) = 1
  /\ after.emptyPosition = Pos(row, col)
  /\ after.board[row][col] = 0
  /\ after.board[before.emptyPosition.row][before.emptyPosition.col] = before.board[row][col]
  /\ before.board[row][col] # 0
  /\ \A rc \in Cells(before) :
       (Pos(rc[1], rc[2]) # before.emptyPosition /\ rc # <<row, col>>)
       => after.board[rc[1]][rc[2]] = before.board[rc[1]][rc[2]]

\* C27: a shuffle round starts from the solved board with a count of
\* max(m, 10 * n * n) moves to make; every step of the round is a successful
\* exchange of the empty cell with an in-range adjacent tile and counts one;
\* the round ends, by returning or by starting another round, only when the
\* count is reached.
C27_ShuffleRoundOfAdjacentSwaps ==
  [][
      /\ (op'.name = "shuffle") =>
           (/\ SolvedState(model')
            /\ shuf'.i = 0
            /\ shuf'.total = (IF op'.row > 10 * model.dimension * model.dimension
                              THEN op'.row ELSE 10 * model.dimension * model.dimension))
      /\ (op'.name = "shuffleStep") =>
           (/\ shuf.active
            /\ shuf'.i = shuf.i + 1
            /\ shuf'.i <= shuf.total
            /\ shuf'.total = shuf.total
            /\ op'.ret
            /\ AdjacentSwap(model, model', op'.row, op'.col))
      /\ (shuf.active /\ op'.name # "shuffleStep") =>
           (/\ op'.name \in {"shuffle", "shuffleReturn"}
            /\ shuf.i = shuf.total)
    ]_vars

\* a round of more than 10 * n * n moves has made its last move
C27_Witness ==
  /\ shuf.active
  /\ op.name = "shuffleStep"
  /\ shuf.i = shuf.total
  /\ shuf.total > 10 * model.dimension * model.dimension

(***************************************************************************)
(* SpecShuffle: shuffle() run to its end. The loop and the test after it   *)
(* keep running, and Math.random() is fair where the round is decided: at  *)
(* the last iteration of a round, on a board one move away from the solved *)
(* one, each of the possible moves is chosen again and again if that       *)
(* iteration is reached on that board again and again.                     *)
(***************************************************************************)
ShuffleNext ==
  \/ \E moves \in ShuffleArgs : ShuffleBegin(moves)
  \/ ShuffleStep
  \/ ShuffleEnd

\* the boards one move away from the solved one: those on which the last
\* iteration of a round can bring the solved board back
ShuffleBoards ==
  UNION {{moveAdjacentTile(NewPuzzleModel(d), getPossibleMoves(NewPuzzleModel(d))[j][1],
                           getPossibleMoves(NewPuzzleModel(d))[j][2]).model :
            j \in 1..Len(getPossibleMoves(NewPuzzleModel(d)))} : d \in ShuffleDims}

\* the last iteration of a round, on board m, with Math.random() picking
\* the randomIndex-th possible move
LastStepFrom(m, randomIndex) ==
  /\ ShuffleStep
  /\ model = m
  /\ shuf.i = shuf.total - 1
  /\ LET mv == getPossibleMoves(m)[randomIndex]
     IN model' = moveAdjacentTile(m, mv[1], mv[2]).model

SpecShuffle ==
  /\ EngineInit
  /\ [][ShuffleNext]_vars
  /\ WF_vars(ShuffleStep)
  /\ WF_vars(ShuffleEnd)
  /\ \A m \in ShuffleBoards : \A randomIndex \in 1..Len(getPossibleMoves(m)) :
       SF_vars(LastStepFrom(m, randomIndex))

\* C35: a shuffle that has been called returns: the rounds started because
\* the one before ended on the solved board do not go on forever.
C35_ShuffleReturns == shuf.active ~> ~shuf.active

\* a round has ended on the solved board, so that shuffle() calls itself
C35_Witness ==
  /\ shuf.active
  /\ shuf.i = shuf.total
  /\ shuf.total > 0
  /\ isSolved(model)

\* the cells strictly between (row, col) and the empty cell of m, on their line
Between(m, row, col) ==
  {Pos(rc[1], rc[2]) : rc \in
     {rc \in Cells(m) :
        /\ rc[1] >= Min(row, m.emptyPosition.row) /\ rc[1] <= Max(row, m.emptyPosition.row)
        /\ rc[2] >= Min(col, m.emptyPosition.col) /\ rc[2] <= Max(col, m.emptyPosition.col)
        /\ rc # <<row, col>>
        /\ Pos(rc[1], rc[2]) # m.emptyPosition}}

\* C28: for a legal target getAffectedTiles returns the cells strictly
\* between the empty cell and the target, each once, so one fewer than their
\* line distance; for any other position it returns the empty sequence; the
\* engine is as it was.
C28_AffectedTilesBetween ==
  (op.name = "getAffectedTiles") =>
    (/\ model = prev
     /\ LegalTarget(prev, op.row, op.col) =>
          (/\ {op.tiles[i] : i \in 1..Len(op.tiles)} = Between(prev, op.row, op.col)
           /\ Len(op.tiles) = LineDistance(prev, op.row, op.col) - 1)
     /\ (~LegalTarget(prev, op.row, op.col)) => (op.tiles = << >>))

\* getAffectedTiles has just answered for a target three or more cells from
\* the empty cell, after a move
C28_Witness ==
  /\ op.name = "getAffectedTiles"
  /\ LegalTarget(prev, op.row, op.col)
  /\ Len(op.tiles) >= 2
  /\ nops >= 1

\* C29: getAffectedTiles lists the cells between in order of their distance
\* from the empty cell, the neighbour of the empty cell first.
C29_AffectedTilesFromEmptyCell ==
  (op.name = "getAffectedTiles" /\ LegalTarget(prev, op.row, op.col)) =>
    \A i \in 1..Len(op.tiles) :
      LineDistance(prev, op.tiles[i].row, op.tiles[i].col) = i

(***************************************************************************)
(* Properties of PeerDiscoveryService and of the PeerService registry.     *)
(***************************************************************************)
\* C38: handleMessage changes nothing and invokes no callback on a message
\* bearing the instance's own id; it invokes the game request, accepted,
\* declined, offer and answer callbacks only for messages addressed to the
\* instance; and the game request callback only when the sender is in the
\* peers map.
C38_DiscoveryReactsToOthersOnly ==
  [][\A i \in Participants :
       Receive(i)
       => (/\ (Head(chan[i]).from = i)
               => (called'.callback = "none" /\ disc'[i] = disc[i])
           /\ (called'.callback \in {"onGameRequest", "onGameAccepted", "onGameDeclined",
                                      "onOffer", "onAnswer"})
               => Head(chan[i]).to = i
           /\ (called'.callback = "onGameRequest")
               => Head(chan[i]).from \in disc[i].peers)]_vars

\* a game request from a known peer has been surfaced by an instance, after
\* its peer took in an announce
C38_Witness ==
  /\ called.callback = "onGameRequest"
  /\ called.message.to = called.at
  /\ called.message.from \in disc[called.at].peers
  /\ called.at \in disc[Peer(called.at)].peers

\* C39: a close or error event on a connection leaves every registry entry
\* that holds another, open connection as it was, and the disconnected
\* notification is raised only if no other registered connection was open.
C39_CloseRemovesOnlyThatConnection ==
  (sev.kind = "close") =>
    /\ \A q \in RemoteIds :
         (/\ sev.before.connections[q] \notin {0, sev.conn}
          /\ sev.before.conns[sev.before.connections[q]].open)
         => svc.connections[q] = sev.before.connections[q]
    /\ sev.notified =>
         \A q \in RemoteIds :
           (sev.before.connections[q] \notin {0, sev.conn})
           => ~sev.before.conns[sev.before.connections[q]].open

(***************************************************************************)
(* Properties of the classic engine, checked under SpecClassic.            *)
(***************************************************************************)
\* C36: Puzzle.move(row, col) returns true exactly when (row, col) is a cell
\* of the board orthogonally next to the empty cell; any other call returns
\* false and leaves board and empty position as they were, so that every
\* row keeps its n cells and the board holds each of 0..n*n-1 once.
C36_ClassicMoveIffAdjacent ==
  /\ (op.name = "move") =>
       (/\ ~op.threw
        /\ op.ret = (/\ op.row \in 0..(prev.dimension - 1)
                     /\ op.col \in 0..(prev.dimension - 1)
                     /\ Abs(op.row - prev.emptyRow) + Abs(op.col - prev.emptyCol) = 1)
        /\ ~op.ret => model = prev)
  /\ \A row \in DOMAIN model.board : DOMAIN model.board[row] = 0..(model.dimension - 1)
  /\ {model.board[rc[1]][rc[2]] : rc \in Cells(model)} = 0..(model.dimension * model.dimension - 1)

(***************************************************************************)
(* Properties of two engines, checked under SpecTwin.                      *)
(***************************************************************************)

C13_SnapshotRoundTrip ==
  /\ (tw.name = "snapshot") =>
       /\ replica.dimension = origin.dimension
       /\ engineAt(heap, replica).board = engineAt(heap, origin).board
       /\ replica.emptyPosition = origin.emptyPosition
       /\ engineAt(heap, origin) = tw.before1
  /\ (tw.name = "origin") => engineAt(heap, replica) = tw.before2
  /\ (tw.name = "replica") => engineAt(heap, origin) = tw.before1

\* the origin has just moved a tile while the replica holds the snapshot of
\* an unsolved board
C13_Witness ==
  /\ tw.name = "origin"
  /\ tw.ret1
  /\ engineAt(heap, origin).board # tw.before1.board
  /\ ~isSolved(engineAt(heap, replica))
  /\ engineAt(heap, replica) = tw.before2

====
